---- MODULE Spec2Model ----
(***************************************************************************)
(* Model of the DC court drafter MCP server: the in-memory rule index      *)
(* (loadRules, get_rule, search_rules in mcp-server/src/index.ts) and the  *)
(* CourtListener REST client (mcp-server/src/courtlistener.ts).            *)
(*                                                                         *)
(* Strings that the code inspects (toLowerCase, includes, replace, match,  *)
(* trim) are sequences of one-character strings.  A JavaScript value that  *)
(* may be undefined is a record [def, v].                                  *)
(***************************************************************************)
EXTENDS Integers, Sequences, FiniteSets, TLC

\* ------------------------------------------------------------------ bounds
MaxFiles == 2
MaxQueryLen == 2

\* ------------------------------------------------------- JavaScript values
Some(x) == [def |-> TRUE, v |-> x]
Undefined == [def |-> FALSE, v |-> <<>>]

\* strings of length at most n over the alphabet A
StringsUpTo(A, n) == UNION {[1..k -> A] : k \in 0..n}

\* String.prototype.toLowerCase, one character
lowerChar(c) ==
    CASE c = "A" -> "a"
      [] c = "B" -> "b"
      [] c = "S" -> "s"
      [] c = "U" -> "u"
      [] c = "T" -> "t"
      [] c = "I" -> "i"
      [] c = "M" -> "m"
      [] c = "E" -> "e"
      [] OTHER -> c

\* String.prototype.toLowerCase
toLowerCase(s) == [i \in 1..Len(s) |-> lowerChar(s[i])]

\* String.prototype.includes
includes(s, sub) ==
    \E i \in 0..(Len(s) - Len(sub)) : SubSeq(s, i + 1, i + Len(sub)) = sub

\* the regular expression class \s
isSpace(c) == c \in {" ", "\t", "\n"}

\* String.prototype.replace(/\s+/g, "_"): every maximal run of whitespace
\* becomes one underscore
RECURSIVE replaceSpaceRuns(_)
replaceSpaceRuns(s) ==
    IF s = <<>> THEN <<>>
    ELSE IF isSpace(Head(s))
         THEN IF Len(s) > 1 /\ isSpace(s[2])
              THEN replaceSpaceRuns(Tail(s))
              ELSE <<"_">> \o replaceSpaceRuns(Tail(s))
         ELSE <<Head(s)>> \o replaceSpaceRuns(Tail(s))

\* Array.prototype.join(" ") on an array of strings
RECURSIVE joinSpace(_)
joinSpace(a) ==
    IF a = <<>> THEN <<>>
    ELSE IF Len(a) = 1 THEN a[1]
    ELSE a[1] \o <<" ">> \o joinSpace(Tail(a))

\* Array.prototype.filter: the indices kept, in order
RECURSIVE filterIdx(_, _, _)
filterIdx(keep(_), a, i) ==
    IF i > Len(a) THEN <<>>
    ELSE IF keep(a[i]) THEN <<i>> \o filterIdx(keep, a, i + 1)
    ELSE filterIdx(keep, a, i + 1)

\* ------------------------------------------------------------- rule corpus
\* characters of rule identifiers, chunk fields and queries
RuleAlphabet == {"a", "A", "b", " ", "_"}

chunkA == [id |-> <<"a", "_", "b">>, section |-> <<"A", " ", "b">>,
           title |-> <<"A">>, content |-> <<"b">>,
           requirements |-> "undefined", keywords |-> Undefined]
chunkB == [id |-> <<"b">>, section |-> <<"b">>,
           title |-> <<"b">>, content |-> <<"A", "b">>,
           requirements |-> "{font_size:12}",
           keywords |-> Some(<< <<"a">>, <<"b", "b">> >>)]
chunkC == [id |-> <<"a", "a">>, section |-> <<"a", "a">>,
           title |-> <<>>, content |-> <<"a", "a">>,
           requirements |-> "undefined", keywords |-> Some(<<>>)]

\* one directory entry of RULES_PATH: its name ends in ".json" or not,
\* readFileSync/JSON.parse succeed or throw, and the parsed value has a
\* rule_number and a chunks array or lacks them
fileA == [json |-> TRUE, readable |-> TRUE, rule_number |-> Some(<<"A", " ", "b">>),
          title |-> "Format", chunks |-> Some(<<chunkA, chunkB>>)]
fileB == [json |-> TRUE, readable |-> TRUE, rule_number |-> Some(<<"b">>),
          title |-> "Motions", chunks |-> Some(<<chunkC>>)]
fileA2 == [json |-> TRUE, readable |-> TRUE, rule_number |-> Some(<<"A", " ", "b">>),
           title |-> "Format (amended)", chunks |-> Some(<<chunkB>>)]
fileU == [json |-> TRUE, readable |-> TRUE, rule_number |-> Some(<<"b", "_">>),
          title |-> "Forms", chunks |-> Some(<<chunkB>>)]
fileNoChunks == [json |-> TRUE, readable |-> TRUE, rule_number |-> Some(<<"a", "_">>),
                 title |-> "Stub", chunks |-> Undefined]
fileNoId == [json |-> TRUE, readable |-> TRUE, rule_number |-> Undefined,
             title |-> "Untitled", chunks |-> Some(<<chunkC>>)]
fileBad == [json |-> TRUE, readable |-> FALSE, rule_number |-> Undefined,
            title |-> "", chunks |-> Undefined]
fileTxt == [json |-> FALSE, readable |-> TRUE, rule_number |-> Undefined,
            title |-> "", chunks |-> Undefined]

FilePool == {fileA, fileB, fileA2, fileU, fileNoChunks, fileNoId, fileBad, fileTxt}

\* the contents of RULES_PATH: readdirSync succeeds or throws
Sources ==
    {[readable |-> FALSE, files |-> <<>>]}
        \cup {[readable |-> TRUE, files |-> fs] : fs \in StringsUpTo(FilePool, MaxFiles)}

\* ------------------------------------------------------------ Map<K, V>
\* a Map is the sequence of its entries [key, value] in insertion order
mapHas(m, k) == \E i \in 1..Len(m) : m[i].key = k
mapGet(m, k) == m[CHOOSE i \in 1..Len(m) : m[i].key = k].value
mapSet(m, k, val) ==
    IF mapHas(m, k)
    THEN [i \in 1..Len(m) |-> IF m[i].key = k THEN [key |-> k, value |-> val] ELSE m[i]]
    ELSE Append(m, [key |-> k, value |-> val])
mapKeys(m) == [i \in 1..Len(m) |-> m[i].key]

\* the RuleFile value JSON.parse yields for a readable file
ruleOf(f) == [rule_number |-> f.rule_number, title |-> f.title, chunks |-> f.chunks]

\* the for loop of loadRules; threw = an exception reached the catch block
RECURSIVE loadRuleFiles(_, _, _)
loadRuleFiles(cache, chunks, files) ==
    IF files = <<>>
    THEN [rulesCache |-> cache, allChunks |-> chunks, threw |-> FALSE]
    ELSE LET f == Head(files) IN
         IF ~f.readable
         THEN [rulesCache |-> cache, allChunks |-> chunks, threw |-> TRUE]
         ELSE LET cache2 == mapSet(cache, f.rule_number, ruleOf(f)) IN
              IF ~f.chunks.def
              THEN [rulesCache |-> cache2, allChunks |-> chunks, threw |-> TRUE]
              ELSE loadRuleFiles(cache2, chunks \o f.chunks.v, Tail(files))

\* readdirSync(RULES_PATH).filter(f => f.endsWith(".json"))
jsonFiles(files) ==
    LET isJson(f) == f.json
        idx == filterIdx(isJson, files, 1)
    IN [i \in 1..Len(idx) |-> files[idx[i]]]

\* loadRules that starts from an empty map and an empty chunk array
loadRules_fresh(cache, chunks, src) ==
    IF ~src.readable
    THEN [rulesCache |-> <<>>, allChunks |-> <<>>, threw |-> TRUE]
    ELSE loadRuleFiles(<<>>, <<>>, jsonFiles(src.files))

loadRules(cache, chunks, src) ==
    IF ~src.readable
    THEN [rulesCache |-> cache, allChunks |-> chunks, threw |-> TRUE]
    ELSE loadRuleFiles(cache, chunks, jsonFiles(src.files))

\* ------------------------------------------------------------- tool calls
NoRule == [rule_number |-> Undefined, title |-> "", chunks |-> Undefined]
NoResponse ==
    [kind |-> "none", query |-> <<>>, rule |-> NoRule, results |-> <<>>,
     result_count |-> 0, known |-> <<>>, message |-> <<>>]

\* (args?.x as string) || ""
orEmpty(arg) == IF arg.def THEN arg.v ELSE <<>>

\* the "Try partial match" loop: the first entry whose key matches in either
\* direction; key.toLowerCase() throws a TypeError on an undefined key
partialMatch(key, ruleNumber) ==
    \/ includes(toLowerCase(key), toLowerCase(ruleNumber))
    \/ includes(toLowerCase(ruleNumber), toLowerCase(key))

firstPartial(cache, ruleNumber) ==
    LET stop == {i \in 1..Len(cache) :
                    \/ ~cache[i].key.def
                    \/ partialMatch(cache[i].key.v, ruleNumber)}
    IN IF stop = {} THEN 0 ELSE CHOOSE i \in stop : \A j \in stop : i <= j

chunkMatches(chunk, ruleNumber) ==
    \/ includes(toLowerCase(chunk.section), toLowerCase(ruleNumber))
    \/ includes(toLowerCase(chunk.id), replaceSpaceRuns(toLowerCase(ruleNumber)))

\* get_rule without its exact-match tier: the partial-match loop decides
get_rule_partialOnly(cache, chunks, arg) ==
    LET ruleNumber == orEmpty(arg)
        base == [NoResponse EXCEPT !.query = ruleNumber]
        p == firstPartial(cache, ruleNumber)
    IN IF p > 0 /\ ~cache[p].key.def
       THEN [base EXCEPT !.kind = "throw"]
       ELSE IF p > 0
       THEN [base EXCEPT !.kind = "document", !.rule = cache[p].value]
       ELSE [base EXCEPT !.kind = "notfound", !.known = mapKeys(cache)]

get_rule(cache, chunks, arg) ==
    LET ruleNumber == orEmpty(arg)
        base == [NoResponse EXCEPT !.query = ruleNumber]
    IN IF mapHas(cache, Some(ruleNumber))
       THEN [base EXCEPT !.kind = "document", !.rule = mapGet(cache, Some(ruleNumber))]
       ELSE LET p == firstPartial(cache, ruleNumber) IN
            IF p > 0 /\ ~cache[p].key.def
            THEN [base EXCEPT !.kind = "throw"]
            ELSE IF p > 0
            THEN [base EXCEPT !.kind = "document", !.rule = cache[p].value]
            ELSE LET keep(c) == chunkMatches(c, ruleNumber)
                     idx == filterIdx(keep, chunks, 1)
                 IN IF Len(idx) > 0
                    THEN [base EXCEPT !.kind = "chunks",
                                      !.results = [i \in 1..Len(idx) |-> chunks[idx[i]]]]
                    ELSE [base EXCEPT !.kind = "notfound", !.known = mapKeys(cache)]

\* the search text glued together without the separating spaces
searchText_noSeparator(chunk) ==
    chunk.title \o chunk.content
        \o (IF chunk.keywords.def THEN joinSpace(chunk.keywords.v) ELSE <<>>)

\* `${chunk.title} ${chunk.content} ${chunk.keywords?.join(" ") || ""}`
searchText(chunk) ==
    chunk.title \o <<" ">> \o chunk.content \o <<" ">>
        \o (IF chunk.keywords.def THEN joinSpace(chunk.keywords.v) ELSE <<>>)

\* a projection that hands out the chunk as it is stored
project_wholeChunk(chunk) == chunk

project(chunk) ==
    [section |-> chunk.section, title |-> chunk.title, content |-> chunk.content,
     requirements |-> chunk.requirements]

\* search_rules with a guard that answers an empty query with no results
search_rules_emptyGuard(chunks, arg) ==
    LET query == toLowerCase(orEmpty(arg))
        keep(c) == query # <<>> /\ includes(toLowerCase(searchText(c)), query)
        idx == filterIdx(keep, chunks, 1)
    IN [NoResponse EXCEPT !.kind = "search", !.query = query,
                          !.result_count = Len(idx),
                          !.results = [i \in 1..Len(idx) |-> project(chunks[idx[i]])]]

search_rules(chunks, arg) ==
    LET query == toLowerCase(orEmpty(arg))
        keep(c) == includes(toLowerCase(searchText(c)), query)
        idx == filterIdx(keep, chunks, 1)
    IN [NoResponse EXCEPT !.kind = "search", !.query = query,
                          !.result_count = Len(idx),
                          !.results = [i \in 1..Len(idx) |-> project(chunks[idx[i]])]]

\* ---------------------------------------------------------------- resources
\* a URI is its scheme-and-path prefix, one element, followed by the
\* characters after it
RULES_URI == "dcourt://rules/"
FORMATTING_URI == <<"dcourt://formatting">>
MOTION_TEMPLATE_URI == <<"dcourt://templates/motion">>

\* String.prototype.replace(/_/g, " ")
underscoresToSpaces(s) == [i \in 1..Len(s) |-> IF s[i] = "_" THEN " " ELSE s[i]]

\* `dcourt://rules/${ruleNumber.replace(/\s+/g, "_")}`
ruleUri(ruleNumber) == <<RULES_URI>> \o replaceSpaceRuns(ruleNumber)

\* uri.startsWith("dcourt://rules/")
isRuleUri(uri) == uri # <<>> /\ Head(uri) = RULES_URI

\* uri.replace("dcourt://rules/", "").replace(/_/g, " ")
ruleIdOf(uri) == underscoresToSpaces(Tail(uri))

\* the ListResources handler: one resource per entry of rulesCache, in map
\* order, then the formatting requirements and the motion template;
\* ruleNumber.replace throws a TypeError on an undefined key
ListResourcesHandler(cache) ==
    IF \E i \in 1..Len(cache) : ~cache[i].key.def
    THEN [NoResponse EXCEPT !.kind = "throw"]
    ELSE [NoResponse EXCEPT
            !.kind = "resources",
            !.results = [i \in 1..Len(cache) |->
                            [uri |-> ruleUri(cache[i].key.v),
                             name |-> <<cache[i].key.v, cache[i].value.title>>]]
                        \o << [uri |-> FORMATTING_URI, name |-> <<"Formatting Requirements">>],
                              [uri |-> MOTION_TEMPLATE_URI, name |-> <<"Motion Template">>] >>]

\* the ReadResource handler; templateReadable = readFileSync of motion.md
\* succeeds
ReadResourceHandler(cache, uri, templateReadable) ==
    LET base == [NoResponse EXCEPT !.query = uri] IN
    IF uri = FORMATTING_URI
    THEN [base EXCEPT !.kind = "formatting"]
    ELSE IF isRuleUri(uri) /\ mapHas(cache, Some(ruleIdOf(uri)))
    THEN [base EXCEPT !.kind = "resource", !.rule = mapGet(cache, Some(ruleIdOf(uri)))]
    ELSE IF uri = MOTION_TEMPLATE_URI
    THEN IF templateReadable THEN [base EXCEPT !.kind = "template"]
         ELSE [base EXCEPT !.kind = "template_not_found"]
    ELSE [base EXCEPT !.kind = "resource_not_found"]

\* ================================================== CourtListener client
MaxCitationLen == 5

\* String(n) for a non-negative integer: its decimal digits
digitChar(d) == CASE d = 0 -> "0" [] d = 1 -> "1" [] d = 2 -> "2" [] d = 3 -> "3"
                  [] d = 4 -> "4" [] d = 5 -> "5" [] d = 6 -> "6" [] d = 7 -> "7"
                  [] d = 8 -> "8" [] d = 9 -> "9"
RECURSIVE numberToString(_)
numberToString(n) ==
    IF n < 10 THEN <<digitChar(n)>>
    ELSE numberToString(n \div 10) \o <<digitChar(n % 10)>>

\* the regular expression class \d, and the value of a digit
isDigit(c) == c \in {"0", "1", "2", "3", "4", "5", "6", "7", "8", "9"}
digitValue(c) == CHOOSE d \in 0..9 : digitChar(d) = c

\* parseInt on a string of decimal digits (exact below 2^53, which every
\* numeral of the citations drawn here is)
RECURSIVE parseInt(_)
parseInt(s) ==
    IF s = <<>> THEN 0
    ELSE 10 * parseInt(SubSeq(s, 1, Len(s) - 1)) + digitValue(s[Len(s)])

\* String.prototype.trim
RECURSIVE trim(_)
trim(s) ==
    IF s = <<>> THEN s
    ELSE IF isSpace(Head(s)) THEN trim(Tail(s))
    ELSE IF isSpace(s[Len(s)]) THEN trim(SubSeq(s, 1, Len(s) - 1))
    ELSE s

\* a parameter value: string | number | boolean | undefined
strV(s) == [t |-> "string", s |-> s, n |-> 0, b |-> FALSE]
numV(n) == [t |-> "number", s |-> <<>>, n |-> n, b |-> FALSE]
boolV(b) == [t |-> "boolean", s |-> <<>>, n |-> 0, b |-> b]
undefV == [t |-> "undefined", s |-> <<>>, n |-> 0, b |-> FALSE]

\* String(value), as fetchApi applies it to a defined parameter value
String(val) ==
    CASE val.t = "string" -> val.s
      [] val.t = "number" -> numberToString(val.n)
      [] val.t = "boolean" -> IF val.b THEN <<"t", "r", "u", "e">> ELSE <<"f", "a", "l", "s", "e">>
      [] val.t = "undefined" -> <<"u", "n", "d", "e", "f", "i", "n", "e", "d">>

\* an object literal { key: value, ...params }: later keys override in place
RECURSIVE spread(_, _)
spread(obj, params) ==
    IF params = <<>> THEN obj
    ELSE spread(mapSet(obj, Head(params).key, Head(params).value), Tail(params))

\* the class [A-Za-z0-9.\s] of the citation pattern
isLetter(c) ==
    \/ c \in {"A", "B", "C", "D", "E", "F", "G", "H", "I", "J", "K", "L", "M",
             "N", "O", "P", "Q", "R", "S", "T", "U", "V", "W", "X", "Y", "Z"}
    \/ c \in {"a", "b", "c", "d", "e", "f", "g", "h", "i", "j", "k", "l", "m",
             "n", "o", "p", "q", "r", "s", "t", "u", "v", "w", "x", "y", "z"}

isReporterChar(c) ==
    \/ isLetter(c)
    \/ isDigit(c)
    \/ c = "."
    \/ isSpace(c)

allOf(s, from, to, ok(_)) == \A i \in from..to : ok(s[i])

\* citation.match(/^(\d+)\s+([A-Za-z0-9.\s]+?)\s+(\d+)$/): the groups of the
\* match a backtracking matcher finds first (\d+ and \s+ greedy, the reporter
\* lazy), or undefined.  m = <<a, b, c, d>>: volume is s[1..a], the reporter
\* s[b..c], the page s[d..Len(s)].
citationSplits(s) ==
    LET n == Len(s)
        pages(c) == {d \in (c + 2)..n :
                        allOf(s, c + 1, d - 1, isSpace) /\ allOf(s, d, n, isDigit)}
        reporters(b) == {c \in b..n : allOf(s, b, c, isReporterChar)}
        gaps(a) == {b \in (a + 2)..n : allOf(s, a + 1, b - 1, isSpace)}
        volumes == {a \in 1..n : allOf(s, 1, a, isDigit)}
    IN UNION {UNION {UNION {{<<a, b, c, d>> : d \in pages(c)}
                            : c \in reporters(b)}
                     : b \in gaps(a)}
              : a \in volumes}

prefers(m, k) ==
    \/ m[1] > k[1]
    \/ m[1] = k[1] /\ m[2] > k[2]
    \/ m[1] = k[1] /\ m[2] = k[2] /\ m[3] < k[3]
    \/ m[1] = k[1] /\ m[2] = k[2] /\ m[3] = k[3] /\ m[4] >= k[4]

citationMatch(s) ==
    LET ms == citationSplits(s) IN
    IF ms = {} THEN Undefined
    ELSE LET m == CHOOSE m \in ms : \A k \in ms : prefers(m, k)
         IN Some([volume |-> SubSeq(s, 1, m[1]),
                  reporter |-> SubSeq(s, m[2], m[3]),
                  page |-> SubSeq(s, m[4], Len(s))])

\* ---------------------------------------------------------------- fetchApi
DEFAULT_BASE_URL == "https://www.courtlistener.com/api/rest/v4"

\* new CourtListenerClient(config)
CourtListenerClient(config) ==
    [set |-> TRUE, apiToken |-> config.apiToken,
     baseUrl |-> IF config.baseUrl.def /\ config.baseUrl.v # ""
                 THEN config.baseUrl.v ELSE DEFAULT_BASE_URL]

NullClient == [set |-> FALSE, apiToken |-> "", baseUrl |-> ""]

\* url.searchParams.set(key, text)
searchParamsSet(query, key, text) == mapSet(query, key, text)

\* every parameter whose value is undefined is dropped, whatever else it holds
RECURSIVE setDefinedParams_truthy(_, _)
setDefinedParams_truthy(query, params) ==
    IF params = <<>> THEN query
    ELSE LET e == Head(params)
             falsy == \/ e.value.t = "undefined"
                      \/ e.value.t = "string" /\ e.value.s = <<>>
                      \/ e.value.t = "number" /\ e.value.n = 0
                      \/ e.value.t = "boolean" /\ ~e.value.b
         IN setDefinedParams_truthy(
                IF falsy THEN query ELSE searchParamsSet(query, e.key, String(e.value)),
                Tail(params))

\* for (const [key, value] of Object.entries(params))
\*     if (value !== undefined) url.searchParams.set(key, String(value))
RECURSIVE setDefinedParams(_, _)
setDefinedParams(query, params) ==
    IF params = <<>> THEN query
    ELSE LET e == Head(params) IN
         setDefinedParams(
             IF e.value.t # "undefined"
             THEN searchParamsSet(query, e.key, String(e.value)) ELSE query,
             Tail(params))

\* the request fetchApi hands to fetch: URL, query string and headers
fetchRequest(client, endpoint, params) ==
    [base |-> client.baseUrl,
     path |-> endpoint.path,
     id |-> endpoint.id,
     query |-> IF params.def THEN setDefinedParams(<<>>, params.v) ELSE <<>>,
     authorization |-> <<"Token", client.apiToken>>,
     accept |-> "application/json"]

\* what the server may answer: the connection fails, or a status and a body
Statuses == {200, 204, 404, 500}

bodyPage == <<"{", "7", "}">>
bodyNone == <<"{", "0", "}">>
bodyHtml == <<"<", "h", ">">>
bodyBlank == <<>>
bodyCountOnly == <<"{", "3", "}">>
Bodies == {bodyPage, bodyNone, bodyCountOnly, bodyHtml, bodyBlank}

Responses ==
    {[net |-> "failed", status |-> 0, body |-> <<>>]}
        \cup {[net |-> "ok", status |-> st, body |-> b] : st \in Statuses, b \in Bodies}

NoValue == [count |-> 0, next |-> "", previous |-> "", results |-> <<>>]

\* response.json(): the value a body parses to, or undefined for a SyntaxError
jsonParse(body) ==
    CASE body = bodyPage ->
            Some([count |-> 7, next |-> "page=2", previous |-> "null",
                  results |-> <<"item1", "item2">>])
      [] body = bodyNone ->
            Some([count |-> 0, next |-> "null", previous |-> "null", results |-> <<>>])
      [] body = bodyCountOnly ->
            Some([count |-> 3, next |-> "null", previous |-> "null", results |-> <<>>])
      [] OTHER -> Undefined

\* response.ok
responseOk(resp) == 200 <= resp.status /\ resp.status <= 299

ERROR_PREFIX == <<"C", "o", "u", "r", "t", "L", "i", "s", "t", "e", "n", "e", "r", " ", "A", "P", "I", " ", "e", "r", "r", "o", "r", " ", "(">>
errorMessage(status, errorText) ==
    ERROR_PREFIX \o numberToString(status) \o <<")", ":", " ">> \o errorText

valueOutcome(v) == [kind |-> "value", value |-> v, message |-> <<>>]
errorOutcome(msg) == [kind |-> "error", value |-> NoValue, message |-> msg]
NoOutcome == [kind |-> "none", value |-> NoValue, message |-> <<>>]

\* fetchApi that reads the body as JSON before it looks at the status
fetchSettle_parseFirst(resp) ==
    IF resp.net = "failed" THEN errorOutcome(<<"f", "e", "t", "c", "h", " ", "f", "a", "i", "l", "e", "d">>)
    ELSE IF jsonParse(resp.body).def THEN valueOutcome(jsonParse(resp.body).v)
    ELSE IF ~responseOk(resp) THEN errorOutcome(errorMessage(resp.status, resp.body))
    ELSE errorOutcome(<<"U", "n", "e", "x", "p", "e", "c", "t", "e", "d", " ", "e", "n", "d", " ", "o", "f", " ", "J", "S", "O", "N", " ", "i", "n", "p", "u", "t">>)

\* how the promise of fetchApi settles once fetch has settled with resp
fetchSettle(resp) ==
    IF resp.net = "failed" THEN errorOutcome(<<"f", "e", "t", "c", "h", " ", "f", "a", "i", "l", "e", "d">>)
    ELSE IF ~responseOk(resp) THEN errorOutcome(errorMessage(resp.status, resp.body))
    ELSE IF jsonParse(resp.body).def THEN valueOutcome(jsonParse(resp.body).v)
    ELSE errorOutcome(<<"U", "n", "e", "x", "p", "e", "c", "t", "e", "d", " ", "e", "n", "d", " ", "o", "f", " ", "J", "S", "O", "N", " ", "i", "n", "p", "u", "t">>)

\* ------------------------------------------------------- client operations
\* each operation is the sequence of fetchApi calls it awaits, in order; a
\* fetchApi call is its endpoint and its params argument (undefined if omitted)
kv(k, val) == [key |-> k, value |-> val]
endpoint(path) == [path |-> path, id |-> <<>>]
endpointWithId(path, n) == [path |-> path, id |-> numberToString(n)]
fetchCall(ep, params) == [endpoint |-> ep, params |-> params]

\* obj[key] of an object given as its entries
prop(obj, key) ==
    IF obj.def /\ mapHas(obj.v, key) THEN mapGet(obj.v, key) ELSE undefV

\* truthiness of a parameter value
truthy(val) ==
    \/ val.t = "string" /\ val.s # <<>>
    \/ val.t = "number" /\ val.n # 0
    \/ val.t = "boolean" /\ val.b

\* spreading an optional params object: undefined spreads nothing
entriesOf(params) == IF params.def THEN params.v ELSE <<>>

searchDockets(params) == <<fetchCall(endpoint("/dockets/"), Some(params))>>

getDocket(docketId) ==
    <<fetchCall(endpointWithId("/dockets/{id}/", docketId), Undefined)>>

getDocketEntries(docketId, params) ==
    <<fetchCall(endpoint("/docket-entries/"),
                Some(spread(<<kv("docket", numV(docketId))>>, entriesOf(params))))>>

getDocument(documentId) ==
    <<fetchCall(endpointWithId("/recap-documents/{id}/", documentId), Undefined)>>

getParties(docketId, params) ==
    <<fetchCall(endpoint("/parties/"),
                Some(spread(<<kv("docket", numV(docketId))>>, entriesOf(params))))>>

getAttorneys(docketId, params) ==
    <<fetchCall(endpoint("/attorneys/"),
                Some(spread(<<kv("docket", numV(docketId))>>, entriesOf(params))))>>

searchOpinions(params) == <<fetchCall(endpoint("/clusters/"), Some(params))>>

getOpinionCluster(clusterId) ==
    <<fetchCall(endpointWithId("/clusters/{id}/", clusterId), Undefined)>>

\* getCitingOpinions that filters on the docket field
getCitingOpinions_docketFilter(clusterId, params) ==
    <<fetchCall(endpoint("/clusters/"),
                Some(spread(<<kv("docket", numV(clusterId))>>, entriesOf(params))))>>

getCitingOpinions(clusterId, params) ==
    <<fetchCall(endpoint("/clusters/"),
                Some(spread(<<kv("cites", numV(clusterId))>>, entriesOf(params))))>>

fullTextSearch(params) == <<fetchCall(endpoint("/search/"), Some(params))>>

\* `"${citation}"`
quoted(citation) == <<"\"">> \o citation \o <<"\"">>

citationCall(m) ==
    fetchCall(endpoint("/citations/"),
              Some(<<kv("volume", numV(parseInt(m.volume))),
                     kv("reporter", strV(trim(m.reporter))),
                     kv("page", strV(m.page))>>))

\* lookupCitation whose matching branch does not return: the search follows
lookupCitation_fallThrough(citation) ==
    LET m == citationMatch(citation)
        search == fullTextSearch(<<kv("q", strV(quoted(citation))), kv("type", strV(<<"o">>))>>)
    IN IF m.def THEN <<citationCall(m.v)>> \o search ELSE search

\* lookupCitation that sends the page as a number, like the volume
lookupCitation_pageNumber(citation) ==
    LET m == citationMatch(citation) IN
    IF m.def
    THEN <<fetchCall(endpoint("/citations/"),
                     Some(<<kv("volume", numV(parseInt(m.v.volume))),
                            kv("reporter", strV(trim(m.v.reporter))),
                            kv("page", numV(parseInt(m.v.page)))>>))>>
    ELSE fullTextSearch(<<kv("q", strV(quoted(citation))), kv("type", strV(<<"o">>))>>)

lookupCitation(citation) ==
    LET m == citationMatch(citation) IN
    IF m.def THEN <<citationCall(m.v)>>
    ELSE fullTextSearch(<<kv("q", strV(quoted(citation))), kv("type", strV(<<"o">>))>>)

\* lookupCitation that returns the search response as it came
lookupCitationResult_passThrough(citation, outcome) == outcome

\* lookupCitation that catches the failure of its request and answers "no match"
lookupCitationResult_swallowed(citation, outcome) ==
    IF outcome.kind # "value" \/ ~citationMatch(citation).def
    THEN valueOutcome([count |-> 0, results |-> <<>>])
    ELSE outcome

\* what lookupCitation returns once its fetchApi call has settled with outcome
lookupCitationResult(citation, outcome) ==
    IF citationMatch(citation).def \/ outcome.kind # "value" THEN outcome
    ELSE valueOutcome([count |-> outcome.value.count, results |-> <<>>])

DC_DISTRICT == <<"d", "c", "d">>

searchDCCases(query, options) ==
    LET type == IF truthy(prop(options, "type")) THEN prop(options, "type") ELSE strV(<<"o">>)
        q == IF truthy(prop(options, "judge"))
             THEN query \o <<" ", "j", "u", "d", "g", "e", ":">> \o String(prop(options, "judge"))
             ELSE query
    IN fullTextSearch(<<kv("q", strV(q)),
                        kv("type", type),
                        kv("court", strV(DC_DISTRICT)),
                        kv("filed_after", prop(options, "filed_after")),
                        kv("filed_before", prop(options, "filed_before"))>>)

\* ------------------------------------------------------------------ inputs
Ids == {7, 42}
PageSizes == {0, 20, 100}

ListParams ==
    {Undefined, Some(<<>>), Some(<<kv("page_size", undefV)>>)}
        \cup {Some(<<kv("page_size", numV(n))>>) : n \in PageSizes}
        \cup {Some(<<kv("page", numV(2)), kv("page_size", numV(n))>>) : n \in PageSizes}

DocketSearchParams ==
    {<<>>,
     <<kv("court", strV(DC_DISTRICT)), kv("case_name", strV(<<>>)),
       kv("order_by", undefV), kv("page_size", numV(20))>>,
     <<kv("date_terminated__isnull", boolV(TRUE)), kv("page", numV(0))>>,
     <<kv("date_terminated__isnull", boolV(FALSE))>>}

OpinionSearchParams ==
    {<<kv("court", strV(DC_DISTRICT)), kv("judge", undefV),
       kv("citation_count__gte", numV(0))>>,
     <<kv("case_name__icontains", strV(<<>>)), kv("page_size", numV(50))>>}

FullTextSearchParams ==
    {<<kv("q", strV(<<"a", " ", "b">>)), kv("type", strV(<<"o">>))>>,
     <<kv("q", strV(<<>>)), kv("type", strV(<<"r">>)), kv("court", undefV),
       kv("cited_gt", numV(5)), kv("stat_Precedential", strV(<<"o", "n">>))>>}

SearchTexts == {<<>>, <<"F", "O", "I", "A">>}

SearchOptions ==
    {Undefined, Some(<<>>),
     Some(<<kv("type", strV(<<"r">>)), kv("filed_after", strV(<<"2", "0", "2", "0">>)),
            kv("judge", strV(<<"M", "o", "s", "s">>))>>),
     Some(<<kv("type", strV(<<>>)), kv("filed_before", undefV), kv("judge", strV(<<>>))>>)}

CitationAlphabet == {"0", "5", "U", " "}
CitationExamples ==
    {<<"5", "5", "0", " ", "U", ".", "S", ".", " ", "5", "4", "4">>, <<"T", "w", "o", "m", "b", "l", "y">>, <<"5", " ", "U", "-", "S", " ", "5">>, <<"0", "5", "\t", "U", " ", "\n", " ", "5">>, <<"5", " ", "F", ".", "3", "d", " ", "0", "5">>}
Citations == StringsUpTo(CitationAlphabet, MaxCitationLen) \cup CitationExamples

NoBaseUrl == [def |-> FALSE, v |-> ""]
Configs ==
    {[apiToken |-> "token-1", baseUrl |-> NoBaseUrl],
     [apiToken |-> "token-2", baseUrl |-> Some("http://localhost:8000/api")],
     [apiToken |-> "token-1", baseUrl |-> Some("")]}

\* ----------------------------------------------------------------- startup
\* the environment: the token variable of the process and the .env file beside
\* the server (absent, unreadable, or readable with or without a token line)
NoEnvFile == [exists |-> FALSE, readable |-> TRUE, token |-> Undefined]
EnvFiles ==
    {NoEnvFile,
     [exists |-> TRUE, readable |-> FALSE, token |-> Undefined],
     [exists |-> TRUE, readable |-> TRUE, token |-> Undefined],
     [exists |-> TRUE, readable |-> TRUE, token |-> Some("token-file")],
     [exists |-> TRUE, readable |-> TRUE, token |-> Some("")]}
NoEnv == [COURTLISTENER_API_TOKEN |-> Undefined, file |-> NoEnvFile]
Envs ==
    {[COURTLISTENER_API_TOKEN |-> t, file |-> f] :
        t \in {Undefined, Some(""), Some("token-1")}, f \in EnvFiles}

\* loadEnvFile: every KEY=value line of a readable .env file is assigned to
\* process.env, over a value the process already had
loadEnvFile(e) ==
    IF e.file.exists /\ e.file.readable /\ e.file.token.def
    THEN [e EXCEPT !.COURTLISTENER_API_TOKEN = e.file.token]
    ELSE e

\* initCourtListener that constructs the client whatever the token is
initCourtListener_always(e, client) ==
    CourtListenerClient([apiToken |-> IF e.COURTLISTENER_API_TOKEN.def
                                      THEN e.COURTLISTENER_API_TOKEN.v ELSE "undefined",
                         baseUrl |-> NoBaseUrl])

\* initCourtListener: the client is constructed if the token is truthy
initCourtListener(e, client) ==
    IF e.COURTLISTENER_API_TOKEN.def /\ e.COURTLISTENER_API_TOKEN.v # ""
    THEN CourtListenerClient([apiToken |-> e.COURTLISTENER_API_TOKEN.v,
                              baseUrl |-> NoBaseUrl])
    ELSE client

\* ------------------------------------------------------------------ state
VARIABLES
    source,       \* the rule directory on disk
    env,          \* process.env.COURTLISTENER_API_TOKEN and the .env file
    rulesCache,   \* Map<string, RuleFile>
    allChunks,    \* RuleChunk[]
    pc,           \* "start" before main has run loadRules, then "serving"
    request,      \* the tool call being answered: [tool, arg]
    response,     \* the answer of the handler to that call
    courtListenerClient,  \* the client: its apiToken and baseUrl fields
    call,         \* the client operation invoked last, with its arguments
    sent,         \* the requests that invocation has handed to fetch
    awaiting,     \* TRUE while a fetch of the invocation is in flight
    reply,        \* what the last fetch settled with
    result,       \* how the promise of the invocation settled
    inflight      \* invocations of the client running at the same time, by slot

indexVars == <<source, env, rulesCache, allChunks, pc, request, response>>
clientVars == <<courtListenerClient, call, sent, awaiting, reply, result, inflight>>
vars == <<source, env, rulesCache, allChunks, pc, request, response,
          courtListenerClient, call, sent, awaiting, reply, result, inflight>>

NoRequest == [tool |-> "none", arg |-> Undefined]
NoCall == [op |-> "none", id |-> 0, params |-> Undefined, citation |-> <<>>,
           text |-> <<>>, options |-> Undefined]
NoReply == [net |-> "none", status |-> 0, body |-> <<>>]

\* an invocation of a client method: the locals of the method and of fetchApi
\* (the call, the requests handed to fetch, the response, the settled promise),
\* the response the network delivered to its fetch, and the rank at which it
\* completed
Slots == {1, 2}
NoInvocation ==
    [call |-> NoCall, sent |-> <<>>, awaiting |-> FALSE, reply |-> NoReply,
     result |-> NoOutcome, delivered |-> NoReply, finished |-> 0]
NoInflight == [s \in Slots |-> NoInvocation]

QueryArgs == {Undefined} \cup {Some(s) : s \in StringsUpTo(RuleAlphabet, MaxQueryLen)}

\* ------------------------------------------------------------- rule index
Init ==
    /\ source \in Sources
    /\ env = NoEnv
    /\ rulesCache = <<>>
    /\ allChunks = <<>>
    /\ pc = "start"
    /\ request = NoRequest
    /\ response = NoResponse
    /\ courtListenerClient = NullClient
    /\ call = NoCall
    /\ sent = <<>>
    /\ awaiting = FALSE
    /\ reply = NoReply
    /\ result = NoOutcome
    /\ inflight = NoInflight

\* main(): loadEnvFile(), loadRules() and initCourtListener() run in this
\* order before the server is connected
Main ==
    /\ pc = "start"
    /\ env' = loadEnvFile(env)
    /\ LET r == loadRules(rulesCache, allChunks, source) IN
        /\ rulesCache' = r.rulesCache
        /\ allChunks' = r.allChunks
    /\ courtListenerClient' = initCourtListener(env', courtListenerClient)
    /\ pc' = "serving"
    /\ UNCHANGED <<source, request, response>>
    /\ UNCHANGED <<call, sent, awaiting, reply, result, inflight>>

\* get_rule that remembers a document found by partial match under the
\* identifier that was asked for
GetRule_caching ==
    /\ pc \in {"serving", "reloaded"}
    /\ request = NoRequest
    /\ \E arg \in QueryArgs :
        /\ request' = [tool |-> "get_rule", arg |-> arg]
        /\ response' = get_rule(rulesCache, allChunks, arg)
        /\ rulesCache' = IF response'.kind = "document"
                         THEN mapSet(rulesCache, Some(orEmpty(arg)), response'.rule)
                         ELSE rulesCache
    /\ UNCHANGED <<source, env, allChunks, pc>>
    /\ UNCHANGED clientVars

GetRule ==
    /\ pc \in {"serving", "reloaded"}
    /\ request = NoRequest
    /\ \E arg \in QueryArgs :
        /\ request' = [tool |-> "get_rule", arg |-> arg]
        /\ response' = get_rule(rulesCache, allChunks, arg)
    /\ UNCHANGED <<source, env, rulesCache, allChunks, pc>>
    /\ UNCHANGED clientVars

SearchRules ==
    /\ pc \in {"serving", "reloaded"}
    /\ request = NoRequest
    /\ \E arg \in QueryArgs :
        /\ request' = [tool |-> "search_rules", arg |-> arg]
        /\ response' = search_rules(allChunks, arg)
    /\ UNCHANGED <<source, env, rulesCache, allChunks, pc>>
    /\ UNCHANGED clientVars

\* the resource URIs a client may ask for: the listed ones and others
ResourceUris ==
    {FORMATTING_URI, MOTION_TEMPLATE_URI, <<"https://example.org/">>}
        \cup {<<RULES_URI>> \o s : s \in StringsUpTo(RuleAlphabet, MaxQueryLen)}
        \cup {ruleUri(f.rule_number.v) : f \in {g \in FilePool : g.rule_number.def}}

ListResources ==
    /\ pc \in {"serving", "reloaded"}
    /\ request = NoRequest
    /\ request' = [tool |-> "resources/list", arg |-> Undefined]
    /\ response' = ListResourcesHandler(rulesCache)
    /\ UNCHANGED <<source, env, rulesCache, allChunks, pc>>
    /\ UNCHANGED clientVars

ReadResource ==
    /\ pc \in {"serving", "reloaded"}
    /\ request = NoRequest
    /\ \E uri \in ResourceUris, templateReadable \in BOOLEAN :
        /\ request' = [tool |-> "resources/read", arg |-> Some(uri)]
        /\ response' = ReadResourceHandler(rulesCache, uri, templateReadable)
    /\ UNCHANGED <<source, env, rulesCache, allChunks, pc>>
    /\ UNCHANGED clientVars

\* the tools that answer from their arguments and constants alone
StaticTools ==
    {"get_formatting_requirements", "generate_caption",
     "generate_signature_block", "generate_certificate_of_service",
     "get_form_url", "get_deadlines"}

StaticTool ==
    /\ pc \in {"serving", "reloaded"}
    /\ request = NoRequest
    /\ \E name \in StaticTools :
        /\ request' = [tool |-> name, arg |-> Undefined]
        /\ response' = [NoResponse EXCEPT !.kind = "static"]
    /\ UNCHANGED <<source, env, rulesCache, allChunks, pc>>
    /\ UNCHANGED clientVars

\* the transport has written the answer; the next request is read
Respond ==
    /\ request # NoRequest
    /\ ~awaiting
    /\ request' = NoRequest
    /\ response' = NoResponse
    /\ UNCHANGED <<source, env, rulesCache, allChunks, pc>>
    /\ UNCHANGED clientVars

Next ==
    \/ Main \/ GetRule \/ SearchRules \/ ListResources \/ ReadResource
    \/ StaticTool \/ Respond

Spec == Init /\ [][Next]_vars

\* ------------------------------------------------------ startup, by step
\* main() statement by statement: each call returns before the next starts,
\* and requests reach the handlers only once server.connect has been called
LoadEnvFileStep ==
    /\ pc = "start"
    /\ env' = loadEnvFile(env)
    /\ pc' = "env_loaded"
    /\ UNCHANGED <<source, rulesCache, allChunks, request, response>>
    /\ UNCHANGED clientVars

LoadRulesStep ==
    /\ pc = "env_loaded"
    /\ LET r == loadRules(rulesCache, allChunks, source) IN
        /\ rulesCache' = r.rulesCache
        /\ allChunks' = r.allChunks
    /\ pc' = "rules_loaded"
    /\ UNCHANGED <<source, env, request, response>>
    /\ UNCHANGED clientVars

InitCourtListenerStep ==
    /\ pc = "rules_loaded"
    /\ courtListenerClient' = initCourtListener(env, courtListenerClient)
    /\ pc' = "client_ready"
    /\ UNCHANGED <<source, env, rulesCache, allChunks, request, response>>
    /\ UNCHANGED <<call, sent, awaiting, reply, result, inflight>>

\* a server that is connected to its transport before main has done anything
Connect_atOnce ==
    /\ pc \in {"start", "client_ready"}
    /\ pc' = "serving"
    /\ UNCHANGED <<source, env, rulesCache, allChunks, request, response>>
    /\ UNCHANGED clientVars

\* await server.connect(transport)
Connect ==
    /\ pc = "client_ready"
    /\ pc' = "serving"
    /\ UNCHANGED <<source, env, rulesCache, allChunks, request, response>>
    /\ UNCHANGED clientVars

InitStartup ==
    /\ source \in Sources
    /\ env \in {NoEnv,
                [COURTLISTENER_API_TOKEN |-> Some(""),
                 file |-> [exists |-> TRUE, readable |-> TRUE, token |-> Some("token-file")]]}
    /\ rulesCache = <<>>
    /\ allChunks = <<>>
    /\ pc = "start"
    /\ request = NoRequest
    /\ response = NoResponse
    /\ courtListenerClient = NullClient
    /\ call = NoCall
    /\ sent = <<>>
    /\ awaiting = FALSE
    /\ reply = NoReply
    /\ result = NoOutcome
    /\ inflight = NoInflight

\* --------------------------------------------------------- loading twice
\* loadRules called once more over the same source
LoadAgain ==
    /\ pc = "serving"
    /\ request = NoRequest
    /\ LET r == loadRules(rulesCache, allChunks, source) IN
        /\ rulesCache' = r.rulesCache
        /\ allChunks' = r.allChunks
    /\ pc' = "reloaded"
    /\ UNCHANGED <<source, env, request, response>>
    /\ UNCHANGED clientVars

NextStartup ==
    \/ LoadEnvFileStep \/ LoadRulesStep \/ InitCourtListenerStep \/ Connect
    \/ GetRule \/ SearchRules \/ ListResources \/ Respond

SpecStartup == InitStartup /\ [][NextStartup]_vars

NextLoad == Main \/ LoadAgain \/ GetRule \/ SearchRules \/ Respond

SpecLoad == Init /\ [][NextLoad]_vars

\* ----------------------------------------------------------------- client
\* the fetchApi calls of the invoked operation
callsOf(c) ==
    CASE c.op = "searchDockets" -> searchDockets(c.params.v)
      [] c.op = "getDocket" -> getDocket(c.id)
      [] c.op = "getDocketEntries" -> getDocketEntries(c.id, c.params)
      [] c.op = "getDocument" -> getDocument(c.id)
      [] c.op = "getParties" -> getParties(c.id, c.params)
      [] c.op = "getAttorneys" -> getAttorneys(c.id, c.params)
      [] c.op = "searchOpinions" -> searchOpinions(c.params.v)
      [] c.op = "getOpinionCluster" -> getOpinionCluster(c.id)
      [] c.op = "getCitingOpinions" -> getCitingOpinions(c.id, c.params)
      [] c.op = "lookupCitation" -> lookupCitation(c.citation)
      [] c.op = "fullTextSearch" -> fullTextSearch(c.params.v)
      [] c.op = "searchDCCases" -> searchDCCases(c.text, c.options)

\* what the operation returns once its last fetchApi call has settled
resultOf(c, outcome) ==
    IF c.op = "lookupCitation" THEN lookupCitationResult(c.citation, outcome)
    ELSE outcome

requestFor(c, k) ==
    fetchRequest(courtListenerClient, callsOf(c)[k].endpoint, callsOf(c)[k].params)

InitClient ==
    /\ source = [readable |-> FALSE, files |-> <<>>]
    /\ env = NoEnv
    /\ rulesCache = <<>>
    /\ allChunks = <<>>
    /\ pc = "serving"
    /\ request = NoRequest
    /\ response = NoResponse
    /\ courtListenerClient \in {CourtListenerClient(cfg) : cfg \in Configs}
    /\ call = NoCall
    /\ sent = <<>>
    /\ awaiting = FALSE
    /\ reply = NoReply
    /\ result = NoOutcome
    /\ inflight = NoInflight

\* an operation is invoked: it builds its first request and awaits fetch
Invoke(c) ==
    /\ call' = c
    /\ sent' = <<requestFor(c, 1)>>
    /\ awaiting' = TRUE
    /\ reply' = NoReply
    /\ result' = NoOutcome
    /\ UNCHANGED <<courtListenerClient, inflight>>
    /\ UNCHANGED indexVars

SearchDockets ==
    /\ ~awaiting /\ call = NoCall
    /\ \E p \in DocketSearchParams : Invoke([NoCall EXCEPT !.op = "searchDockets", !.params = Some(p)])
GetDocket ==
    /\ ~awaiting /\ call = NoCall
    /\ \E n \in Ids : Invoke([NoCall EXCEPT !.op = "getDocket", !.id = n])
GetDocketEntries ==
    /\ ~awaiting /\ call = NoCall
    /\ \E n \in Ids, p \in ListParams :
           Invoke([NoCall EXCEPT !.op = "getDocketEntries", !.id = n, !.params = p])
GetDocument ==
    /\ ~awaiting /\ call = NoCall
    /\ \E n \in Ids : Invoke([NoCall EXCEPT !.op = "getDocument", !.id = n])
GetParties ==
    /\ ~awaiting /\ call = NoCall
    /\ \E n \in Ids, p \in ListParams :
           Invoke([NoCall EXCEPT !.op = "getParties", !.id = n, !.params = p])
GetAttorneys ==
    /\ ~awaiting /\ call = NoCall
    /\ \E n \in Ids, p \in ListParams :
           Invoke([NoCall EXCEPT !.op = "getAttorneys", !.id = n, !.params = p])
SearchOpinions ==
    /\ ~awaiting /\ call = NoCall
    /\ \E p \in OpinionSearchParams : Invoke([NoCall EXCEPT !.op = "searchOpinions", !.params = Some(p)])
GetOpinionCluster ==
    /\ ~awaiting /\ call = NoCall
    /\ \E n \in Ids : Invoke([NoCall EXCEPT !.op = "getOpinionCluster", !.id = n])
GetCitingOpinions ==
    /\ ~awaiting /\ call = NoCall
    /\ \E n \in Ids, p \in ListParams :
           Invoke([NoCall EXCEPT !.op = "getCitingOpinions", !.id = n, !.params = p])
LookupCitation ==
    /\ ~awaiting /\ call = NoCall
    /\ \E cit \in Citations : Invoke([NoCall EXCEPT !.op = "lookupCitation", !.citation = cit])
FullTextSearch ==
    /\ ~awaiting /\ call = NoCall
    /\ \E p \in FullTextSearchParams : Invoke([NoCall EXCEPT !.op = "fullTextSearch", !.params = Some(p)])
SearchDCCases ==
    /\ ~awaiting /\ call = NoCall
    /\ \E q \in SearchTexts, o \in SearchOptions :
           Invoke([NoCall EXCEPT !.op = "searchDCCases", !.text = q, !.options = o])

\* the fetch in flight settles: fetchApi throws or returns, and the operation
\* awaits its next fetchApi call or settles itself
FetchSettles ==
    /\ awaiting
    /\ LET calls == callsOf(call) IN
       \E resp \in Responses :
        LET outcome == fetchSettle(resp) IN
        /\ reply' = resp
        /\ IF outcome.kind = "value" /\ Len(sent) < Len(calls)
           THEN /\ sent' = Append(sent, requestFor(call, Len(sent) + 1))
                /\ UNCHANGED <<awaiting, result>>
           ELSE /\ awaiting' = FALSE
                /\ result' = resultOf(call, outcome)
                /\ UNCHANGED sent
    /\ UNCHANGED <<courtListenerClient, call, inflight>>
    /\ UNCHANGED indexVars

\* the caller has taken the settled promise; the client is used again
Return ==
    /\ ~awaiting
    /\ call # NoCall
    /\ call' = NoCall
    /\ sent' = <<>>
    /\ reply' = NoReply
    /\ result' = NoOutcome
    /\ UNCHANGED <<courtListenerClient, awaiting, inflight>>
    /\ UNCHANGED indexVars

NextClient ==
    \/ SearchDockets \/ GetDocket \/ GetDocketEntries \/ GetDocument
    \/ GetParties \/ GetAttorneys \/ SearchOpinions \/ GetOpinionCluster
    \/ GetCitingOpinions \/ LookupCitation \/ FullTextSearch \/ SearchDCCases
    \/ FetchSettles \/ Return

SpecClient == InitClient /\ [][NextClient]_vars

\* ------------------------------------------------- concurrent invocations
\* the search operations of the client, with the arguments drawn for them
SearchCalls ==
    {[NoCall EXCEPT !.op = "searchDockets", !.params = Some(p)] : p \in DocketSearchParams}
        \cup {[NoCall EXCEPT !.op = "searchOpinions", !.params = Some(p)] : p \in OpinionSearchParams}
        \cup {[NoCall EXCEPT !.op = "fullTextSearch", !.params = Some(p)] : p \in FullTextSearchParams}
        \cup {[NoCall EXCEPT !.op = "searchDCCases", !.text = q, !.options = o] :
                  q \in SearchTexts, o \in {Undefined} \cup {x \in SearchOptions : x.def /\ x.v # <<>>}}

\* fetchApi settles in slot s with a response every invocation in flight reads
\* from one shared place: the other slot's response is overwritten too
settleSlot_sharedResponse(fl, s, resp) ==
    [t \in Slots |->
        IF t = s \/ fl[t].reply # NoReply
        THEN [fl[t] EXCEPT !.awaiting = FALSE,
                           !.reply = resp,
                           !.result = resultOf(fl[t].call, fetchSettle(resp)),
                           !.finished = IF t = s
                                        THEN 1 + Cardinality({u \in Slots : fl[u].finished > 0})
                                        ELSE @]
        ELSE fl[t]]

\* fetchApi settles in slot s: `const response = await fetch(...)` is a local
\* of that invocation, and so is the value or error it makes of it
settleSlot(fl, s, resp) ==
    [fl EXCEPT ![s] = [@ EXCEPT !.awaiting = FALSE,
                                !.reply = resp,
                                !.result = resultOf(fl[s].call, fetchSettle(resp)),
                                !.finished = 1 + Cardinality({u \in Slots : fl[u].finished > 0})]]

InitConcurrent == InitClient

\* a search operation is invoked while the same operation may be in flight:
\* slot 1 holds the earlier invocation, slot 2 the later one
ConcurrentInvoke ==
    \E s \in Slots, c \in SearchCalls :
        /\ inflight[s].call = NoCall
        /\ \A t \in Slots : t < s => inflight[t].call.op = c.op
        /\ \A t \in Slots : t > s => inflight[t].call = NoCall
        /\ inflight' = [inflight EXCEPT ![s] =
                            [NoInvocation EXCEPT !.call = c,
                                                 !.sent = <<requestFor(c, 1)>>,
                                                 !.awaiting = TRUE]]
        /\ UNCHANGED <<courtListenerClient, call, sent, awaiting, reply, result>>
        /\ UNCHANGED indexVars

\* the fetch of one of the invocations in flight settles, in any order
ConcurrentSettle ==
    \E s \in Slots, resp \in Responses :
        /\ inflight[s].awaiting
        /\ inflight' = [settleSlot(inflight, s, resp) EXCEPT ![s].delivered = resp]
        /\ UNCHANGED <<courtListenerClient, call, sent, awaiting, reply, result>>
        /\ UNCHANGED indexVars

\* both promises have been consumed; the client is used again
ConcurrentReturn ==
    /\ \A s \in Slots : inflight[s].call # NoCall /\ ~inflight[s].awaiting
    /\ inflight' = NoInflight
    /\ UNCHANGED <<courtListenerClient, call, sent, awaiting, reply, result>>
    /\ UNCHANGED indexVars

NextConcurrent == ConcurrentInvoke \/ ConcurrentSettle \/ ConcurrentReturn

SpecConcurrent == InitConcurrent /\ [][NextConcurrent]_vars

\* ------------------------------------------------------ CourtListener tools
\* the tool cases of the CallTool handler that use the client: each is the
\* sequence of client operations it awaits, built from the tool arguments
DC_CIRCUIT == <<"c", "a", "d", "c">>
NOT_CONFIGURED == <<"CourtListener API not configured">>

\* (args?.x as number) || fallback
orDefault(val, fallback) == IF truthy(val) THEN val.n ELSE fallback

\* the requested number of results taken as it is, without the ceiling
cappedResults_uncapped(args, fallback) == orDefault(prop(args, "max_results"), fallback)

\* Math.min((args?.max_results as number) || fallback, 50)
cappedResults(args, fallback) ==
    LET n == orDefault(prop(args, "max_results"), fallback)
    IN IF n < 50 THEN n ELSE 50

\* if (value) searchParams.key = value
setIfTruthy(obj, key, val) == IF truthy(val) THEN mapSet(obj, key, val) ELSE obj

fullTextSearchCall(params) == [NoCall EXCEPT !.op = "fullTextSearch", !.params = Some(params)]

search_dc_cases(args) ==
    LET query == prop(args, "query")
        judge == prop(args, "judge")
        p0 == <<kv("q", query), kv("type", strV(<<"r">>)), kv("court", strV(DC_DISTRICT)),
                kv("page_size", numV(cappedResults(args, 10)))>>
        p1 == setIfTruthy(p0, "filed_after", prop(args, "date_filed_after"))
        p2 == setIfTruthy(p1, "filed_before", prop(args, "date_filed_before"))
        p3 == IF truthy(judge)
              THEN mapSet(p2, "q", strV(String(query) \o <<" ", "j", "u", "d", "g", "e", ":", "\"">>
                                            \o String(judge) \o <<"\"">>))
              ELSE p2
    IN <<fullTextSearchCall(p3)>>

get_case_docket(args) ==
    LET docketId == prop(args, "docket_id").n
        inc == prop(args, "include_entries")
        includeEntries == ~(inc.t = "boolean" /\ ~inc.b)
        maxEntries == orDefault(prop(args, "max_entries"), 50)
    IN <<[NoCall EXCEPT !.op = "getDocket", !.id = docketId]>>
           \o (IF includeEntries
               THEN <<[NoCall EXCEPT !.op = "getDocketEntries", !.id = docketId,
                                     !.params = Some(<<kv("page_size", numV(maxEntries))>>)]>>
               ELSE <<>>)

get_document_content(args) ==
    <<[NoCall EXCEPT !.op = "getDocument", !.id = prop(args, "document_id").n]>>

get_case_parties(args) ==
    <<[NoCall EXCEPT !.op = "getParties", !.id = prop(args, "docket_id").n,
                     !.params = Some(<<kv("page_size", numV(100))>>)]>>

search_opinions(args) ==
    LET query == prop(args, "query")
        court == IF truthy(prop(args, "court")) THEN prop(args, "court").s ELSE DC_DISTRICT
        p0 == <<kv("q", query), kv("type", strV(<<"o">>)),
                kv("page_size", numV(cappedResults(args, 10)))>>
        p1 == mapSet(p0, "court",
                     IF court = <<"b", "o", "t", "h">>
                     THEN strV(DC_DISTRICT \o <<",">> \o DC_CIRCUIT)
                     ELSE IF court = DC_CIRCUIT THEN strV(DC_CIRCUIT)
                     ELSE strV(DC_DISTRICT))
        p2 == setIfTruthy(p1, "filed_after", prop(args, "date_filed_after"))
        p3 == setIfTruthy(p2, "filed_before", prop(args, "date_filed_before"))
        p4 == setIfTruthy(p3, "cited_gt", prop(args, "cited_more_than"))
    IN <<fullTextSearchCall(p4)>>

\* a get_citing_cases that asks for the citing clusters first
get_citing_cases_citingFirst(args) ==
    LET clusterId == prop(args, "cluster_id").n
        maxResults == orDefault(prop(args, "max_results"), 20)
    IN <<[NoCall EXCEPT !.op = "getCitingOpinions", !.id = clusterId,
                        !.params = Some(<<kv("page_size", numV(maxResults))>>)],
         [NoCall EXCEPT !.op = "getOpinionCluster", !.id = clusterId]>>

get_citing_cases(args) ==
    LET clusterId == prop(args, "cluster_id").n
        maxResults == orDefault(prop(args, "max_results"), 20)
    IN <<[NoCall EXCEPT !.op = "getOpinionCluster", !.id = clusterId],
         [NoCall EXCEPT !.op = "getCitingOpinions", !.id = clusterId,
                        !.params = Some(<<kv("page_size", numV(maxResults))>>)]>>

lookup_citation(args) ==
    <<fullTextSearchCall(<<kv("q", strV(quoted(String(prop(args, "citation"))))),
                           kv("type", strV(<<"o">>))>>)>>

search_similar_filings(args) ==
    LET filingType == prop(args, "filing_type")
        topic == prop(args, "topic")
        query == IF truthy(topic)
                 THEN strV(String(filingType) \o <<" ">> \o String(topic))
                 ELSE filingType
        p0 == <<kv("q", query), kv("type", strV(<<"r">>)), kv("court", strV(DC_DISTRICT)),
                kv("page_size", numV(cappedResults(args, 10)))>>
    IN <<fullTextSearchCall(setIfTruthy(p0, "filed_after", prop(args, "date_filed_after")))>>

CourtListenerTools ==
    {"search_dc_cases", "get_case_docket", "get_document_content", "get_case_parties",
     "search_opinions", "get_citing_cases", "lookup_citation", "search_similar_filings"}

toolCalls(tool, args) ==
    CASE tool = "search_dc_cases" -> search_dc_cases(args)
      [] tool = "get_case_docket" -> get_case_docket(args)
      [] tool = "get_document_content" -> get_document_content(args)
      [] tool = "get_case_parties" -> get_case_parties(args)
      [] tool = "search_opinions" -> search_opinions(args)
      [] tool = "get_citing_cases" -> get_citing_cases(args)
      [] tool = "lookup_citation" -> lookup_citation(args)
      [] tool = "search_similar_filings" -> search_similar_filings(args)

\* tool arguments
MaxResultsArgs == {undefV, numV(0), numV(5), numV(50), numV(51), numV(200)}
QueryTexts == {undefV, strV(<<"F", "O", "I", "A">>)}
DateArgs == {undefV, strV(<<"2", "0", "2", "0">>)}
IdArgs == {numV(n) : n \in Ids}

\* the argument objects drawn for each tool
ToolArgs(tool) ==
    CASE tool = "search_dc_cases" ->
            {<<kv("query", q), kv("max_results", m), kv("judge", j),
               kv("date_filed_after", a), kv("date_filed_before", b)>> :
                q \in QueryTexts, m \in MaxResultsArgs,
                j \in {undefV, strV(<<"M", "o", "s", "s">>)},
                a \in DateArgs, b \in DateArgs}
      [] tool = "get_case_docket" ->
            {<<kv("docket_id", d), kv("include_entries", i), kv("max_entries", m)>> :
                d \in IdArgs, i \in {undefV, boolV(TRUE), boolV(FALSE)}, m \in MaxResultsArgs}
      [] tool = "get_document_content" -> {<<kv("document_id", d)>> : d \in IdArgs}
      [] tool = "get_case_parties" -> {<<kv("docket_id", d)>> : d \in IdArgs}
      [] tool = "search_opinions" ->
            {<<kv("query", q), kv("court", c), kv("max_results", m),
               kv("date_filed_after", a), kv("cited_more_than", g)>> :
                q \in QueryTexts,
                c \in {undefV, strV(<<"b", "o", "t", "h">>), strV(DC_CIRCUIT), strV(DC_DISTRICT)},
                m \in MaxResultsArgs, a \in DateArgs, g \in {undefV, numV(0), numV(5)}}
      [] tool = "get_citing_cases" ->
            {<<kv("cluster_id", d), kv("max_results", m)>> : d \in IdArgs, m \in MaxResultsArgs}
      [] tool = "lookup_citation" -> {<<kv("citation", strV(c))>> : c \in CitationExamples}
      [] tool = "search_similar_filings" ->
            {<<kv("filing_type", f), kv("topic", t), kv("max_results", m),
               kv("date_filed_after", a)>> :
                f \in QueryTexts, t \in {undefV, strV(<<"T", "P", "S">>)},
                m \in MaxResultsArgs, a \in DateArgs}

InitTools ==
    /\ source = [readable |-> FALSE, files |-> <<>>]
    /\ env \in Envs
    /\ rulesCache = <<>>
    /\ allChunks = <<>>
    /\ pc = "start"
    /\ request = NoRequest
    /\ response = NoResponse
    /\ courtListenerClient = NullClient
    /\ call = NoCall
    /\ sent = <<>>
    /\ awaiting = FALSE
    /\ reply = NoReply
    /\ result = NoOutcome
    /\ inflight = NoInflight

\* a tool case whose catch block throws the error again
toolFailure_rethrown(tool, outcome) ==
    [NoResponse EXCEPT !.kind = "throw", !.message = outcome.message]

\* the catch block of a tool case: { error: "...", message: error.message }
toolFailure(tool, outcome) ==
    [NoResponse EXCEPT !.kind = "tool_failed", !.message = outcome.message]

\* the TypeError of reading a property of searchResult.results[0] === undefined
UNDEFINED_RESULT == <<"Cannot read properties of undefined (reading 'caseName')">>

\* lookup_citation after its search has returned searchResult
lookupCitationAnswer(args, searchResult) ==
    IF searchResult.count > 0
    THEN IF searchResult.results = <<>>
         THEN toolFailure("lookup_citation", errorOutcome(UNDEFINED_RESULT))
         ELSE [found |-> TRUE] @@
              [NoResponse EXCEPT !.kind = "tool_result",
                                 !.query = String(prop(args, "citation")),
                                 !.results = <<searchResult.results[1]>>]
    ELSE [found |-> FALSE] @@
         [NoResponse EXCEPT !.kind = "tool_result",
                            !.query = String(prop(args, "citation"))]

\* what a tool case answers once its last client operation has returned value
toolAnswer(tool, args, value) ==
    IF tool = "lookup_citation" THEN lookupCitationAnswer(args, value)
    ELSE [NoResponse EXCEPT !.kind = "tool_result"]

\* a tool case starts: without a client it answers at once, with a client it
\* awaits its first client operation
InvokeTool(tool, args) ==
    /\ request' = [tool |-> tool, arg |-> Some(args)]
    /\ IF ~courtListenerClient.set
       THEN /\ response' = [NoResponse EXCEPT !.kind = "not_configured",
                                              !.message = NOT_CONFIGURED]
            /\ UNCHANGED <<call, sent, awaiting, reply, result>>
       ELSE LET first == toolCalls(tool, Some(args))[1] IN
            /\ response' = NoResponse
            /\ call' = first
            /\ sent' = <<requestFor(first, 1)>>
            /\ awaiting' = TRUE
            /\ reply' = NoReply
            /\ result' = NoOutcome
    /\ UNCHANGED <<source, env, rulesCache, allChunks, pc, courtListenerClient, inflight>>

SearchDcCasesTool ==
    /\ pc \in {"serving", "reloaded"} /\ request = NoRequest
    /\ \E args \in ToolArgs("search_dc_cases") : InvokeTool("search_dc_cases", args)
GetCaseDocketTool ==
    /\ pc \in {"serving", "reloaded"} /\ request = NoRequest
    /\ \E args \in ToolArgs("get_case_docket") : InvokeTool("get_case_docket", args)
GetDocumentContentTool ==
    /\ pc \in {"serving", "reloaded"} /\ request = NoRequest
    /\ \E args \in ToolArgs("get_document_content") : InvokeTool("get_document_content", args)
GetCasePartiesTool ==
    /\ pc \in {"serving", "reloaded"} /\ request = NoRequest
    /\ \E args \in ToolArgs("get_case_parties") : InvokeTool("get_case_parties", args)
SearchOpinionsTool ==
    /\ pc \in {"serving", "reloaded"} /\ request = NoRequest
    /\ \E args \in ToolArgs("search_opinions") : InvokeTool("search_opinions", args)
GetCitingCasesTool ==
    /\ pc \in {"serving", "reloaded"} /\ request = NoRequest
    /\ \E args \in ToolArgs("get_citing_cases") : InvokeTool("get_citing_cases", args)
LookupCitationTool ==
    /\ pc \in {"serving", "reloaded"} /\ request = NoRequest
    /\ \E args \in ToolArgs("lookup_citation") : InvokeTool("lookup_citation", args)
SearchSimilarFilingsTool ==
    /\ pc \in {"serving", "reloaded"} /\ request = NoRequest
    /\ \E args \in ToolArgs("search_similar_filings") : InvokeTool("search_similar_filings", args)

\* the client operation the tool awaits settles: an error goes to the catch
\* block of the tool case, a value lets the case go on to its next operation
\* or to its answer
ToolFetchSettles ==
    /\ awaiting
    /\ request.tool \in CourtListenerTools
    /\ \E resp \in Responses :
        LET outcome == resultOf(call, fetchSettle(resp))
            calls == toolCalls(request.tool, request.arg)
        IN /\ reply' = resp
           /\ result' = outcome
           /\ IF outcome.kind = "error"
              THEN /\ response' = toolFailure(request.tool, outcome)
                   /\ awaiting' = FALSE
                   /\ UNCHANGED <<call, sent>>
              ELSE IF Len(sent) < Len(calls)
              THEN /\ call' = calls[Len(sent) + 1]
                   /\ sent' = Append(sent, requestFor(calls[Len(sent) + 1], 1))
                   /\ UNCHANGED <<awaiting, response>>
              ELSE /\ response' = toolAnswer(request.tool, request.arg, outcome.value)
                   /\ awaiting' = FALSE
                   /\ UNCHANGED <<call, sent>>
    /\ UNCHANGED <<source, env, rulesCache, allChunks, pc, request,
                   courtListenerClient, inflight>>

\* the tool case has returned its answer; the next request is read
ToolRespond ==
    /\ request # NoRequest
    /\ ~awaiting
    /\ request' = NoRequest
    /\ response' = NoResponse
    /\ call' = NoCall
    /\ sent' = <<>>
    /\ reply' = NoReply
    /\ result' = NoOutcome
    /\ UNCHANGED <<source, env, rulesCache, allChunks, pc, awaiting,
                   courtListenerClient, inflight>>

NextTools ==
    \/ Main
    \/ SearchDcCasesTool \/ GetCaseDocketTool \/ GetDocumentContentTool
    \/ GetCasePartiesTool \/ SearchOpinionsTool \/ GetCitingCasesTool
    \/ LookupCitationTool \/ SearchSimilarFilingsTool
    \/ ToolFetchSettles \/ ToolRespond

SpecTools == InitTools /\ [][NextTools]_vars

\* ============================================================ rule index claims
Range(f) == {f[i] : i \in DOMAIN f}

\* case-insensitive containment, as the claims word it
ciContains(text, s) == includes(toLowerCase(text), toLowerCase(s))

\* the files loadRules has stored when it returns: the ".json" entries up to the
\* first one that makes it throw, without the unreadable ones
storedFiles(src) ==
    LET js == jsonFiles(src.files)
        bad == {i \in 1..Len(js) : ~js[i].readable \/ ~js[i].chunks.def}
        last == IF bad = {} THEN Len(js)
                ELSE CHOOSE i \in bad : \A j \in bad : i <= j
    IN IF src.readable THEN [i \in {j \in 1..last : js[j].readable} |-> js[i]]
       ELSE <<>>

\* the document the source holds for rule identifier k: the last stored file
\* that states k
asLoaded(src, k) ==
    LET st == storedFiles(src)
        at == {i \in DOMAIN st : st[i].rule_number = Some(k)}
    IN st[CHOOSE i \in at : \A j \in at : j <= i]

\* C1: after load, get_rule called with exactly a key of the rule index answers
\* with that key's document as it was loaded (same title, same chunk sequence),
\* never another document, a chunk list or a miss.
C1_ExactKeyRoundTrip ==
    (request.tool = "get_rule" /\ mapHas(rulesCache, Some(orEmpty(request.arg)))) =>
        /\ response.kind = "document"
        /\ response.rule.rule_number = Some(orEmpty(request.arg))
        /\ response.rule.title = asLoaded(source, orEmpty(request.arg)).title
        /\ response.rule.chunks = asLoaded(source, orEmpty(request.arg)).chunks

\* an exact key was asked for that is not the first key matching it by substring
C1_Witness ==
    /\ request.tool = "get_rule"
    /\ response.kind = "document"
    /\ \E i, j \in 1..Len(rulesCache) :
        /\ i < j
        /\ rulesCache[j].key = Some(orEmpty(request.arg))
        /\ rulesCache[i].key.def
        /\ partialMatch(rulesCache[i].key.v, orEmpty(request.arg))

\* C2: search_rules with the empty string returns every loaded chunk exactly
\* once: the count is the length of the flattened chunk sequence and the
\* results are the chunks, position by position.
C2_EmptyQueryReturnsAll ==
    (request.tool = "search_rules" /\ orEmpty(request.arg) = <<>>) =>
        /\ response.result_count = Len(allChunks)
        /\ Len(response.results) = Len(allChunks)
        /\ \A i \in 1..Len(allChunks) : response.results[i] = project(allChunks[i])

\* the empty query was answered over an index that holds the same chunk twice
C2_Witness ==
    /\ request.tool = "search_rules"
    /\ orEmpty(request.arg) = <<>>
    /\ response.result_count >= 3
    /\ \E i, j \in 1..Len(allChunks) : i < j /\ allChunks[i] = allChunks[j]

\* the keyword text of a chunk
keywordText(chunk) == IF chunk.keywords.def THEN joinSpace(chunk.keywords.v) ELSE <<>>

inResults(chunk) == project(chunk) \in Range(response.results)

\* C3 as stated: a chunk whose content contains s (case-insensitively) is in
\* search(s), and a chunk none of whose title, content or keywords contains s
\* is not in search(s).
C3_AsStated ==
    request.tool = "search_rules" =>
        \A i \in 1..Len(allChunks) :
            LET c == allChunks[i]
                s == orEmpty(request.arg)
            IN /\ ciContains(c.content, s) => inResults(c)
               /\ (/\ ~ciContains(c.title, s)
                   /\ ~ciContains(c.content, s)
                   /\ ~ciContains(keywordText(c), s)) => ~inResults(c)

\* C3 amended: a chunk whose content contains s is in search(s); a chunk is in
\* search(s) only if the text "title content keywords" (joined by single spaces)
\* contains s, so a chunk none of whose fields contains s is excluded whenever s
\* has no space character.
C3_SearchBySubstring ==
    request.tool = "search_rules" =>
        \A i \in 1..Len(allChunks) :
            LET c == allChunks[i]
                s == orEmpty(request.arg)
                joined == c.title \o <<" ">> \o c.content \o <<" ">> \o keywordText(c)
            IN /\ ciContains(c.content, s) => inResults(c)
               /\ ~ciContains(joined, s) => ~inResults(c)
               /\ (/\ " " \notin Range(s)
                   /\ ~ciContains(c.title, s)
                   /\ ~ciContains(c.content, s)
                   /\ ~ciContains(keywordText(c), s)) => ~inResults(c)

\* a query with an upper-case letter matched one chunk by its content and left
\* out another chunk, none of whose fields contains it
C3_Witness ==
    /\ request.tool = "search_rules"
    /\ toLowerCase(orEmpty(request.arg)) # orEmpty(request.arg)
    /\ \E i, j \in 1..Len(allChunks) :
        /\ ciContains(allChunks[i].content, orEmpty(request.arg))
        /\ inResults(allChunks[i])
        /\ ~ciContains(allChunks[j].title, orEmpty(request.arg))
        /\ ~ciContains(allChunks[j].content, orEmpty(request.arg))
        /\ ~ciContains(keywordText(allChunks[j]), orEmpty(request.arg))
        /\ ~inResults(allChunks[j])

\* no key of the index equals or partially matches q and no chunk matches it
unknownIdentifier(q) ==
    /\ \A i \in 1..Len(rulesCache) :
        rulesCache[i].key.def =>
            /\ rulesCache[i].key.v # q
            /\ ~partialMatch(rulesCache[i].key.v, q)
    /\ \A i \in 1..Len(allChunks) : ~chunkMatches(allChunks[i], q)

\* C4: get_rule called with an unknown identifier returns a miss, never a
\* raised error; the miss lists every identifier of the index, and the list is
\* not empty when a document was loaded.
C4_UnknownIsMiss ==
    (request.tool = "get_rule" /\ unknownIdentifier(orEmpty(request.arg))) =>
        /\ response.kind = "notfound"
        /\ response.known = mapKeys(rulesCache)
        /\ (Len(rulesCache) > 0 => Len(response.known) > 0)

\* ================================================================ client claims
hasParam(req, key) == mapHas(req.query, key)
param(req, key) == mapGet(req.query, key)

\* the longest prefix and the longest suffix of s made of digits
leadingDigits(s) ==
    LET n == CHOOSE k \in 0..Len(s) :
                 /\ \A i \in 1..k : isDigit(s[i])
                 /\ (k < Len(s) => ~isDigit(s[k + 1]))
    IN SubSeq(s, 1, n)
trailingDigits(s) ==
    LET n == CHOOSE k \in 0..Len(s) :
                 /\ \A i \in (Len(s) - k + 1)..Len(s) : isDigit(s[i])
                 /\ (k < Len(s) => ~isDigit(s[Len(s) - k]))
    IN SubSeq(s, Len(s) - n + 1, Len(s))
middleOf(s) == SubSeq(s, Len(leadingDigits(s)) + 1, Len(s) - Len(trailingDigits(s)))

\* a decimal numeral without its leading zeros
RECURSIVE stripZeros(_)
stripZeros(d) == IF Len(d) > 1 /\ Head(d) = "0" THEN stripZeros(Tail(d)) ELSE d

\* s has the shape "<integer> <reporter> <integer>": digits, whitespace, a
\* non-empty reporter of letters, digits, periods and whitespace, whitespace,
\* digits
wellFormedCitation(s) ==
    \E i, j \in 1..Len(s) :
        /\ 1 < i /\ i + 1 < j /\ j < Len(s)
        /\ \A k \in 1..(i - 1) : isDigit(s[k])
        /\ isSpace(s[i])
        /\ \A k \in (i + 1)..(j - 1) : isLetter(s[k]) \/ isDigit(s[k]) \/ s[k] = "." \/ isSpace(s[k])
        /\ isSpace(s[j])
        /\ \A k \in (j + 1)..Len(s) : isDigit(s[k])

\* C5: for a citation of the shape "<integer> <reporter> <integer>",
\* lookupCitation sends one request, to the citations endpoint, with volume =
\* the leading integer, reporter = the middle token trimmed and page = the
\* trailing integer as text, and sends no full-text search request.
C5_WellFormedCitationDirect ==
    (call.op = "lookupCitation" /\ wellFormedCitation(call.citation)) =>
        /\ Len(sent) = 1
        /\ sent[1].path = "/citations/"
        /\ sent[1].query =
              <<kv("volume", stripZeros(leadingDigits(call.citation))),
                kv("reporter", trim(middleOf(call.citation))),
                kv("page", trailingDigits(call.citation))>>
        /\ \A i \in 1..Len(sent) : sent[i].path # "/search/"

\* "550 U.S. 544" was looked up: volume 550, reporter "U.S.", page "544"
C5_Witness ==
    /\ call.op = "lookupCitation"
    /\ call.citation = <<"5", "5", "0", " ", "U", ".", "S", ".", " ", "5", "4", "4">>
    /\ ~awaiting
    /\ result.kind = "value"
    /\ sent = <<[base |-> DEFAULT_BASE_URL, path |-> "/citations/", id |-> <<>>,
                 query |-> <<kv("volume", <<"5", "5", "0">>),
                             kv("reporter", <<"U", ".", "S", ".">>),
                             kv("page", <<"5", "4", "4">>)>>,
                 authorization |-> <<"Token", "token-1">>,
                 accept |-> "application/json"]>>

\* C6: for a citation that does not have that shape, lookupCitation does not
\* fail on the input: it sends one full-text search for the quoted string
\* with type "o" and, when the search succeeds, returns the search's count
\* with an empty results list.
C6_MalformedCitationSearch ==
    (call.op = "lookupCitation" /\ ~wellFormedCitation(call.citation)) =>
        /\ Len(sent) = 1
        /\ sent[1].path = "/search/"
        /\ sent[1].query =
              <<kv("q", <<"\"">> \o call.citation \o <<"\"">>), kv("type", <<"o">>)>>
        /\ (~awaiting /\ reply.net = "ok" /\ responseOk(reply) /\ jsonParse(reply.body).def) =>
              result = valueOutcome([count |-> jsonParse(reply.body).v.count,
                                     results |-> <<>>])
        /\ (~awaiting /\ result.kind = "error") =>
              (reply.net = "failed" \/ ~responseOk(reply) \/ ~jsonParse(reply.body).def)

\* "Twombly" was looked up and the search answered 7 matches with two results
C6_Witness ==
    /\ call.op = "lookupCitation"
    /\ call.citation = <<"T", "w", "o", "m", "b", "l", "y">>
    /\ ~awaiting
    /\ reply.body = bodyPage
    /\ result.kind = "value"
    /\ result.value.count = 7
    /\ result.value.results = <<>>

\* the text a defined parameter value is sent as
textOf(val) ==
    CASE val.t = "string" -> val.s
      [] val.t = "number" -> numberToString(val.n)
      [] val.t = "boolean" -> IF val.b THEN <<"t", "r", "u", "e">> ELSE <<"f", "a", "l", "s", "e">>

\* C7: in every request fetchApi builds, a parameter whose value is undefined
\* is not on the query string, a parameter whose value is the empty string is
\* there with an empty value, and every other defined value is there once,
\* converted to text; nothing else is on the query string.
C7_ParamsSerialised ==
    \A k \in 1..Len(sent) :
        LET params == entriesOf(callsOf(call)[k].params)
            query == sent[k].query
        IN /\ \A i \in 1..Len(params) :
                IF params[i].value.t = "undefined"
                THEN \A j \in 1..Len(query) : query[j].key # params[i].key
                ELSE /\ Cardinality({j \in 1..Len(query) : query[j].key = params[i].key}) = 1
                     /\ \E j \in 1..Len(query) :
                            query[j] = kv(params[i].key, textOf(params[i].value))
           /\ \A j \in 1..Len(query) : \E i \in 1..Len(params) : params[i].key = query[j].key

\* a request was built from an undefined parameter, an empty string, a number
\* and a non-empty string
C7_Witness ==
    /\ call.op = "searchDockets"
    /\ \E i \in 1..Len(call.params.v) : call.params.v[i] = kv("order_by", undefV)
    /\ sent[1].query = <<kv("court", <<"d", "c", "d">>), kv("case_name", <<>>),
                         kv("page_size", <<"2", "0">>)>>

\* C8: for every client operation, a non-2xx response makes the operation
\* fail with an error whose message contains the status code and the response
\* body verbatim; the body is not parsed and no value is returned.
C8_Non2xxIsError ==
    (call # NoCall /\ ~awaiting /\ reply.net = "ok"
        /\ ~(reply.status >= 200 /\ reply.status <= 299)) =>
        /\ result.kind = "error"
        /\ result.value = NoValue
        /\ LET status == numberToString(reply.status) IN
           \E i \in 1..Len(result.message) :
              /\ SubSeq(result.message, i, i + Len(status) - 1) = status
              /\ SubSeq(result.message, i + Len(status) + 3, Len(result.message)) = reply.body

\* a 404 whose body is JSON made the fallback search of lookupCitation fail
C8_Witness ==
    /\ call.op = "lookupCitation"
    /\ sent[1].path = "/search/"
    /\ ~awaiting
    /\ reply.status = 404
    /\ reply.body = bodyPage
    /\ result.kind = "error"

\* C9: every client operation issues exactly one remote request per
\* invocation: it follows no "next" cursor and repeats no request after a
\* network failure or a non-2xx status.
C9_OneRequestPerInvocation ==
    call # NoCall => Len(sent) = 1

\* an invocation has settled on a page that names a next page
C9_Witness ==
    /\ call.op = "getDocketEntries"
    /\ ~awaiting
    /\ result.kind = "value"
    /\ result.value.next = "page=2"
    /\ Len(sent) = 1

\* the page_size argument of the invoked list operation, if it is a number
pageSizeArg(c) == prop(c.params, "page_size")

\* C10: getDocketEntries, getParties and getCitingOpinions called with
\* page_size = N put page_size = N and their docket / cites filter on the
\* request and return the server's envelope unchanged: the returned count is
\* the server's total, whatever N is.
C10_ListPageSize ==
    (call.op \in {"getDocketEntries", "getParties", "getCitingOpinions"}) =>
        /\ pageSizeArg(call).t = "number" =>
              /\ hasParam(sent[1], "page_size")
              /\ param(sent[1], "page_size") = numberToString(pageSizeArg(call).n)
        /\ LET filter == IF call.op = "getCitingOpinions" THEN "cites" ELSE "docket" IN
              /\ hasParam(sent[1], filter)
              /\ param(sent[1], filter) = numberToString(call.id)
              /\ \A j \in 1..Len(sent[1].query) :
                    sent[1].query[j].key \in {filter, "page", "page_size"}
        /\ (~awaiting /\ reply.net = "ok" /\ responseOk(reply) /\ jsonParse(reply.body).def) =>
              result = valueOutcome(jsonParse(reply.body).v)

\* getCitingOpinions(42, {page_size: 0}) returned a count of 7
C10_Witness ==
    /\ call.op = "getCitingOpinions"
    /\ call.id = 42
    /\ pageSizeArg(call) = numV(0)
    /\ sent[1].query = <<kv("cites", <<"4", "2">>), kv("page_size", <<"0">>)>>
    /\ ~awaiting
    /\ result.kind = "value"
    /\ result.value.count = 7

\* ======================================================= concurrency claims
\* an invocation has completed
completed(inv) == inv.call # NoCall /\ ~inv.awaiting

\* every invocation in flight has sent exactly the one request its own
\* arguments build, and a completed one holds what its own response gives
independentCompletions ==
    \A s \in Slots :
        LET inv == inflight[s] IN
        /\ inv.call # NoCall =>
               inv.sent = <<fetchRequest(courtListenerClient,
                                         callsOf(inv.call)[1].endpoint,
                                         callsOf(inv.call)[1].params)>>
        /\ completed(inv) =>
               /\ inv.delivered # NoReply
               /\ inv.reply = inv.delivered
               /\ inv.result = fetchSettle(inv.delivered)
        /\ inv.awaiting => inv.reply = NoReply /\ inv.result = NoOutcome

\* C11: two invocations of the same search operation that run at the same
\* time, in any interleaving, each send their own request and each complete
\* with their own response; no step reassigns the client's token or base URL.
C11_ConcurrentSearchesIndependent ==
    /\ []independentCompletions
    /\ [][courtListenerClient' = courtListenerClient]_vars

\* two searches with different arguments overlapped, the later one completed
\* first, and they completed differently
C11_Witness ==
    /\ completed(inflight[1])
    /\ completed(inflight[2])
    /\ inflight[1].call.op = inflight[2].call.op
    /\ inflight[1].call # inflight[2].call
    /\ inflight[2].finished = 1
    /\ inflight[1].finished = 2
    /\ inflight[1].result.kind = "value"
    /\ inflight[2].result.kind = "error"

\* ============================================================== load claims
\* the rule documents of the source: its ".json" entries
documentsOf(src) == IF src.readable THEN jsonFiles(src.files) ELSE <<>>

\* a readable document that has a rule_number and a chunks array
wellFormed(f) == f.readable /\ f.rule_number.def /\ f.chunks.def

\* loadRules reached its catch block
loadFailed == loadRules(<<>>, <<>>, source).threw

\* C12: load fails soft per document: with a malformed or unreadable document
\* in the source, that document is skipped and every readable, well-formed
\* document of the source is in the index afterwards.
C12_FailSoftPerDocument ==
    pc = "serving" =>
        LET docs == documentsOf(source) IN
        /\ \A i \in 1..Len(docs) :
               wellFormed(docs[i]) =>
                   /\ mapHas(rulesCache, docs[i].rule_number)
                   /\ \A k \in 1..Len(docs[i].chunks.v) :
                          docs[i].chunks.v[k] \in Range(allChunks)
        /\ \A i \in 1..Len(rulesCache) :
               rulesCache[i].key.def /\ rulesCache[i].value.chunks.def

\* C13: if loading fails, the index is left empty (no keys, no chunks), and
\* afterwards every lookup is a miss and every search an empty result list.
C13_LoadFailureLeavesEmptyIndex ==
    (pc = "serving" /\ loadFailed) =>
        /\ rulesCache = <<>>
        /\ allChunks = <<>>
        /\ request.tool = "get_rule" => response.kind = "notfound"
        /\ request.tool = "search_rules" =>
               response.kind = "search" /\ response.results = <<>>

\* C14: once load has completed, no request handler (list resources, read
\* resource, get_rule, search_rules, any other tool call) changes the rule
\* index: the map and the flattened chunk sequence stay as load left them.
C14_IndexImmutableAfterLoad ==
    [][pc = "serving" => rulesCache' = rulesCache /\ allChunks' = allChunks]_vars

\* a resource of a loaded document was read from an index that holds chunks
C14_Witness ==
    /\ pc = "serving"
    /\ request.tool = "resources/read"
    /\ response.kind = "resource"
    /\ Len(rulesCache) = 2
    /\ allChunks # <<>>

\* the index one call of loadRules builds from the source
loadedOnce == loadRules(<<>>, <<>>, source)

\* C15: load is not idempotent: after a second call over the same source the
\* map has the keys it had after one call, the flattened chunk sequence is
\* the one-call sequence twice over, and search returns every match twice.
C15_LoadTwiceDuplicates ==
    pc = "reloaded" =>
        /\ mapKeys(rulesCache) = mapKeys(loadedOnce.rulesCache)
        /\ allChunks = loadedOnce.allChunks \o loadedOnce.allChunks
        /\ Len(allChunks) = 2 * Len(loadedOnce.allChunks)
        /\ request.tool = "search_rules" =>
               LET first == search_rules(loadedOnce.allChunks, request.arg).results
               IN /\ response.results = first \o first
                  /\ response.result_count = 2 * Len(first)

\* after the second load a search matched some chunks of a two-document index
\* and left others out
C15_Witness ==
    /\ pc = "reloaded"
    /\ Len(rulesCache) = 2
    /\ request.tool = "search_rules"
    /\ response.result_count >= 2
    /\ response.result_count < Len(allChunks)

\* ============================================================ lookup claims
\* the positions of the index whose key matches q in either direction,
\* compared case-insensitively
matchingKeys(q) ==
    {i \in 1..Len(rulesCache) :
        /\ rulesCache[i].key.def
        /\ \/ ciContains(rulesCache[i].key.v, q)
           \/ ciContains(q, rulesCache[i].key.v)}

isExactKey(q) == \E i \in 1..Len(rulesCache) : rulesCache[i].key = Some(q)

\* C16: when the identifier is not an exact key, get_rule returns the first
\* document, in insertion order of the index, whose key contains the query or
\* is contained in it (case-insensitively), never a later one that matches too.
C16_FirstPartialMatch ==
    LET q == orEmpty(request.arg) IN
    (request.tool = "get_rule" /\ ~isExactKey(q) /\ matchingKeys(q) # {}) =>
        /\ response.kind = "document"
        /\ \E i \in matchingKeys(q) :
               /\ \A j \in matchingKeys(q) : i <= j
               /\ response.rule = rulesCache[i].value

\* the chunks whose section contains q or whose id contains q with its
\* whitespace runs replaced by underscores, in the order of the chunk sequence
sectionOrIdMatches(c, q) ==
    \/ ciContains(c.section, q)
    \/ includes(toLowerCase(c.id), replaceSpaceRuns(toLowerCase(q)))

\* C17: get_rule falls back to chunks only when no key matches exactly or by
\* substring; it then returns all chunks whose section contains the query or
\* whose id contains the query with whitespace runs as underscores, and the
\* miss when no chunk matches either.
C17_ChunkFallback ==
    LET q == orEmpty(request.arg)
        hits == {i \in 1..Len(allChunks) : sectionOrIdMatches(allChunks[i], q)}
    IN request.tool = "get_rule" =>
        /\ response.kind \in {"chunks", "notfound"} =>
               ~isExactKey(q) /\ matchingKeys(q) = {}
        /\ (~isExactKey(q) /\ matchingKeys(q) = {}) =>
               IF hits # {}
               THEN /\ response.kind = "chunks"
                    /\ Len(response.results) = Cardinality(hits)
                    /\ \A k \in 1..Len(response.results) :
                           \E i \in hits :
                               /\ Cardinality({j \in hits : j <= i}) = k
                               /\ response.results[k] = allChunks[i]
               ELSE response.kind = "notfound"

\* ============================================================ search claims
\* the chunks of the stored documents, document after document
RECURSIVE flatten(_)
flatten(files) ==
    IF files = <<>> THEN <<>>
    ELSE (IF Head(files).chunks.def THEN Head(files).chunks.v ELSE <<>>)
             \o flatten(Tail(files))

\* the positions of the chunk sequence whose text contains the query
searchHits(s) ==
    {i \in 1..Len(allChunks) :
        ciContains(allChunks[i].title \o <<" ">> \o allChunks[i].content \o <<" ">>
                       \o keywordText(allChunks[i]), s)}

\* C18: for every query the search result is the matching chunks in flattening
\* order (document load order, then chunk order within the document), not
\* reordered, and each result carries section, title, content and requirements
\* only, never the chunk's id or keywords.
C18_SearchOrderAndProjection ==
    request.tool = "search_rules" =>
        LET hits == searchHits(orEmpty(request.arg)) IN
        /\ allChunks = flatten(storedFiles(source))
        /\ Len(response.results) = Cardinality(hits)
        /\ \A k \in 1..Len(response.results) :
               /\ DOMAIN response.results[k] = {"section", "title", "content", "requirements"}
               /\ \E i \in hits :
                      /\ Cardinality({j \in hits : j <= i}) = k
                      /\ response.results[k].section = allChunks[i].section
                      /\ response.results[k].title = allChunks[i].title
                      /\ response.results[k].content = allChunks[i].content
                      /\ response.results[k].requirements = allChunks[i].requirements

\* a search over two documents returned the first and the third chunk and left
\* out the second
C18_Witness ==
    /\ request.tool = "search_rules"
    /\ Len(rulesCache) = 2
    /\ Len(allChunks) = 3
    /\ searchHits(orEmpty(request.arg)) = {1, 3}
    /\ allChunks[1] # allChunks[3]
    /\ Len(response.results) = 2

\* ============================================================== tool claims
\* a token is available once main has read the environment
tokenAvailable ==
    env.COURTLISTENER_API_TOKEN.def /\ env.COURTLISTENER_API_TOKEN.v # ""

\* C19: when no access token is available at startup no client is constructed,
\* and every legal-records tool call answers 'not configured' without issuing
\* a remote request; with a token the client is constructed and no tool call
\* answers 'not configured' (the client has no such answer of its own).
C19_NotConfiguredWithoutToken ==
    pc # "start" =>
        /\ ~tokenAvailable =>
               /\ ~courtListenerClient.set
               /\ sent = <<>> /\ ~awaiting
               /\ request.tool \in CourtListenerTools =>
                      response.kind = "not_configured" /\ response.message = NOT_CONFIGURED
        /\ tokenAvailable =>
               /\ courtListenerClient.set
               /\ response.kind # "not_configured"
               /\ request.tool \in CourtListenerTools => sent # <<>>

\* the .env file blanked the token, and a two-operation tool answered
\* 'not configured'
C19_Witness ==
    /\ pc \in {"serving", "reloaded"}
    /\ env.file.token = Some("")
    /\ request.tool = "get_citing_cases"
    /\ response.kind = "not_configured"
    /\ sent = <<>>

\* the page_size a request carries, if it is a numeral of 0..50
smallPageSizes == {numberToString(n) : n \in 0..50}

\* C20 as stated: the callers enforce the page-size ceiling: no request that
\* the tool dispatcher sends through the client carries a page_size greater
\* than 50.
C20_PageSizeCeiling ==
    \A k \in 1..Len(sent) :
        hasParam(sent[k], "page_size") => param(sent[k], "page_size") \in smallPageSizes

\* the number a tool argument asks for, or the tool's default when the
\* argument is missing or zero
askedOr(name, default) ==
    LET v == prop(request.arg, name)
    IN IF v.t = "number" /\ v.n # 0 THEN v.n ELSE default

SearchTools == {"search_dc_cases", "search_opinions", "search_similar_filings"}

\* C20 amended: the three search tools cap page_size at 50 (max_results, default
\* 10, cut to 50); get_case_docket sends max_entries (default 50) and
\* get_citing_cases sends max_results (default 20) without a ceiling,
\* get_case_parties always sends 100, and the other tools send no page_size.
C20_PageSizeByTool ==
    \A k \in 1..Len(sent) :
        LET ps == IF hasParam(sent[k], "page_size")
                  THEN Some(param(sent[k], "page_size")) ELSE Undefined
        IN CASE request.tool \in SearchTools ->
                  /\ ps = Some(numberToString(IF askedOr("max_results", 10) > 50 THEN 50
                                              ELSE askedOr("max_results", 10)))
                  /\ ps.v \in smallPageSizes
             [] request.tool = "get_case_docket" ->
                  ps = IF k = 2 THEN Some(numberToString(askedOr("max_entries", 50)))
                       ELSE Undefined
             [] request.tool = "get_citing_cases" ->
                  ps = IF k = 2 THEN Some(numberToString(askedOr("max_results", 20)))
                       ELSE Undefined
             [] request.tool = "get_case_parties" -> ps = Some(<<"1", "0", "0">>)
             [] OTHER -> ps = Undefined

\* a search tool was asked for 200 results and sent page_size 50
C20_Witness ==
    /\ request.tool = "search_opinions"
    /\ prop(request.arg, "max_results") = numV(200)
    /\ Len(sent) = 1
    /\ hasParam(sent[1], "page_size")
    /\ param(sent[1], "page_size") = <<"5", "0">>

\* ------------------------------------------------ result formatting helpers
\* String.prototype.toUpperCase
upperChar(c) ==
    CASE c = "a" -> "A"
      [] c = "c" -> "C"
      [] c = "d" -> "D"
      [] OTHER -> c

toUpperCase(s) == [i \in 1..Len(s) |-> upperChar(s[i])]

\* truthiness of a nullable string, and `a && a.length > 0` of an array
nonEmpty(o) == o.def /\ o.v # <<>>

\* Array.prototype.join(", ")
RECURSIVE joinComma(_)
joinComma(a) ==
    IF a = <<>> THEN <<>>
    ELSE IF Len(a) = 1 THEN a[1]
    ELSE a[1] \o <<",", " ">> \o joinComma(Tail(a))

\* String.prototype.replace(/<[^>]+>/g, "")
RECURSIVE stripTags(_)
stripTags(s) ==
    IF s = <<>> THEN <<>>
    ELSE IF /\ Head(s) = "<"
            /\ Len(s) >= 3
            /\ s[2] # ">"
            /\ \E j \in 3..Len(s) : s[j] = ">"
         THEN LET j == CHOOSE k \in 3..Len(s) :
                           s[k] = ">" /\ \A m \in 3..(k - 1) : s[m] # ">"
              IN stripTags(SubSeq(s, j + 1, Len(s)))
         ELSE <<Head(s)>> \o stripTags(Tail(s))

\* one element of `lines`: the literal part of the template and the value
\* interpolated into it
line(label, text) == [label |-> label, text |-> text]

\* a helper returns its lines (joined with "\n"), or a TypeError leaves it
rendered(lines) == [threw |-> FALSE, lines |-> lines]
TypeError == [threw |-> TRUE, lines |-> <<>>]

\* if (value) { lines.push(`label${value}`) }
pushIf(lines, o, label) ==
    IF nonEmpty(o) THEN Append(lines, line(label, o.v)) ELSE lines

formatDocket(docket) ==
    LET l0 == <<line("**", docket.case_name),
                line("Case No: ", docket.docket_number),
                line("Court: ", toUpperCase(docket.court_id))>>
        l1 == pushIf(l0, docket.date_filed, "Filed: ")
        l2 == pushIf(l1, docket.date_terminated, "Terminated: ")
        l3 == pushIf(l2, docket.assigned_to_str, "Judge: ")
        l4 == pushIf(l3, docket.nature_of_suit, "Nature of Suit: ")
        l5 == pushIf(l4, docket.cause, "Cause: ")
    IN rendered(l5)

\* `${c.volume} ${c.reporter} ${c.page}`
citationText(c) ==
    joinSpace(<<numberToString(c.volume), c.reporter, numberToString(c.page)>>)

SUMMARY_LIMIT == 500

\* summary.substring(0, 500) + (summary.length > 500 ? "..." : "")
summaryText(summary) ==
    SubSeq(summary, 1, IF Len(summary) < SUMMARY_LIMIT THEN Len(summary) ELSE SUMMARY_LIMIT)
        \o (IF Len(summary) > SUMMARY_LIMIT THEN <<".", ".", ".">> ELSE <<>>)

\* a formatOpinionCluster without its guards: a method of an absent value is called
formatOpinionCluster_unguarded(cluster) ==
    IF ~cluster.citations.def \/ ~cluster.summary.def THEN TypeError
    ELSE rendered(
        <<line("**", cluster.case_name),
          line("Date: ", cluster.date_filed),
          line("Citation: ",
               joinComma([i \in 1..Len(cluster.citations.v) |->
                              citationText(cluster.citations.v[i])])),
          line("Judges: ", cluster.judges),
          line("Citation Count: ", numberToString(cluster.citation_count)),
          line("Status: ", cluster.precedential_status),
          line("", <<>>), line("Summary:", <<>>),
          line("", summaryText(cluster.summary.v))>>)

formatOpinionCluster(cluster) ==
    LET l0 == <<line("**", cluster.case_name), line("Date: ", cluster.date_filed)>>
        l1 == IF nonEmpty(cluster.citations)
              THEN Append(l0, line("Citation: ",
                       joinComma([i \in 1..Len(cluster.citations.v) |->
                                      citationText(cluster.citations.v[i])])))
              ELSE l0
        l2 == IF cluster.judges # <<>>
              THEN Append(l1, line("Judges: ", cluster.judges)) ELSE l1
        l3 == l2 \o <<line("Citation Count: ", numberToString(cluster.citation_count)),
                      line("Status: ", cluster.precedential_status)>>
        l4 == IF nonEmpty(cluster.summary)
              THEN l3 \o <<line("", <<>>), line("Summary:", <<>>),
                           line("", summaryText(cluster.summary.v))>>
              ELSE l3
    IN rendered(l4)

formatSearchResult(res) ==
    LET l0 == <<line("**", res.caseName), line("Court: ", res.court),
                line("Date Filed: ", res.dateFiled)>>
        l1 == IF nonEmpty(res.citation)
              THEN Append(l0, line("Citations: ", joinComma(res.citation.v))) ELSE l0
        l2 == IF res.judge # <<>> THEN Append(l1, line("Judge: ", res.judge)) ELSE l1
        l3 == IF res.citeCount > 0
              THEN Append(l2, line("Cited ", numberToString(res.citeCount))) ELSE l2
        l4 == IF res.snippet # <<>>
              THEN l3 \o <<line("", <<>>), line("Snippet:", <<>>),
                           line("", stripTags(res.snippet))>>
              ELSE l3
    IN rendered(Append(l4, line("URL: https://www.courtlistener.com", res.absolute_url)))

NoDate == <<"N", "o", " ", "d", "a", "t", "e">>

\* `${numStr} ${dateStr}: ${entry.description} (${docCount} doc${...})`
entryLine(entry) ==
    LET docCount == IF entry.recap_documents.def THEN Len(entry.recap_documents.v) ELSE 0
        dateStr == IF nonEmpty(entry.date_filed) THEN entry.date_filed.v ELSE NoDate
        numStr == IF entry.entry_number.def /\ entry.entry_number.v # 0
                  THEN <<"#">> \o numberToString(entry.entry_number.v) ELSE <<>>
    IN line("entry",
            <<numStr, dateStr, entry.description, numberToString(docCount),
              IF docCount # 1 THEN <<"s">> ELSE <<>>>>)

formatDocketEntries(entries) ==
    rendered([i \in 1..Len(entries) |-> entryLine(entries[i])])

Unknown == <<"U", "n", "k", "n", "o", "w", "n">>

\* the first loop of formatParties: grouped[type].push(party)
RECURSIVE groupParties(_, _)
groupParties(grouped, parties) ==
    IF parties = <<>> THEN grouped
    ELSE LET party == Head(parties)
             type == IF nonEmpty(party.type_name) THEN party.type_name.v ELSE Unknown
             g == IF mapHas(grouped, type) THEN grouped ELSE mapSet(grouped, type, <<>>)
         IN groupParties(mapSet(g, type, Append(mapGet(g, type), party)), Tail(parties))

RECURSIVE attorneyLines(_)
attorneyLines(attorneys) ==
    IF attorneys = <<>> THEN <<>>
    ELSE pushIf(<<line("    Attorney: ", Head(attorneys).name)>>,
                Head(attorneys).email, "    Email: ")
             \o attorneyLines(Tail(attorneys))

RECURSIVE partyLines(_)
partyLines(parties) ==
    IF parties = <<>> THEN <<>>
    ELSE LET party == Head(parties) IN
         <<line("  - ", party.name)>>
             \o (IF nonEmpty(party.attorneys) THEN attorneyLines(party.attorneys.v) ELSE <<>>)
             \o partyLines(Tail(parties))

RECURSIVE groupLines(_)
groupLines(grouped) ==
    IF grouped = <<>> THEN <<>>
    ELSE <<line("**:**", Head(grouped).key)>> \o partyLines(Head(grouped).value)
             \o groupLines(Tail(grouped))

formatParties(parties) == rendered(groupLines(groupParties(<<>>, parties)))

\* ---- the records handed to the helpers
MaxEntries == 2

Nullable(texts) == {Undefined, Some(<<>>)} \cup {Some(t) : t \in texts}

Dockets ==
    [case_name : {<<"A", " ", "v", " ", "B">>}, docket_number : {<<"1", ":", "2">>},
     court_id : {<<"d", "c", "d">>},
     date_filed : Nullable({<<"2", "0", "2", "4">>}),
     date_terminated : Nullable({<<"2", "0", "2", "5">>}),
     assigned_to_str : Nullable({<<"J">>}),
     nature_of_suit : Nullable({<<"4", "4", "0">>}),
     cause : Nullable({<<"4", "2">>})]

citation410 == [volume |-> 410, reporter |-> <<"U", ".", "S", ".">>, page |-> 113]
citation5 == [volume |-> 5, reporter |-> <<"F", ".", "3", "d">>, page |-> 7]
summaryLong == [i \in 1..(SUMMARY_LIMIT + 1) |-> "x"]

Clusters ==
    [case_name : {<<"A", " ", "v", " ", "B">>}, date_filed : {<<"2", "0", "2", "4">>},
     citations : {Undefined, Some(<<>>), Some(<<citation410>>),
                  Some(<<citation410, citation5>>)},
     judges : {<<>>, <<"J">>},
     citation_count : {0, 3},
     precedential_status : {<<"P">>},
     summary : Nullable({<<"s", "u", "m">>, summaryLong})]

SearchResults ==
    [caseName : {<<"A", " ", "v", " ", "B">>}, court : {<<"D", "C">>},
     dateFiled : {<<"2", "0", "2", "4">>},
     citation : {Undefined, Some(<<>>), Some(<<<<"5", " ", "F">>>>),
                 Some(<<<<"5", " ", "F">>, <<"6", " ", "U">>>>)},
     judge : {<<>>, <<"J">>},
     citeCount : {0, 3},
     snippet : {<<>>, <<"a", "<", "m", ">", "b", "<", "/", "m", ">">>,
                <<"a", "<", ">", "b">>, <<"<", "b">>},
     absolute_url : {<<"/", "o">>}]

DocketEntryPool ==
    [date_filed : Nullable({<<"2", "0", "2", "4">>}),
     entry_number : {Undefined, Some(0), Some(5)},
     description : {<<"M">>},
     recap_documents : {Undefined, Some(<<>>), Some(<<7>>), Some(<<7, 8>>)}]

AttorneyPool ==
    [name : {<<"L">>}, email : Nullable({<<"l", "@", "x">>})]

PartyPool ==
    [name : {<<"P">>},
     type_name : Nullable({<<"P", "l">>, <<"D", "f">>}),
     attorneys : {Undefined, Some(<<>>)}
                     \cup {Some(<<a>>) : a \in AttorneyPool}
                     \cup {Some(<<a, a>>) : a \in AttorneyPool}]

ListsUpTo(pool, n) == UNION {[1..k -> pool] : k \in 0..n}

\* ---- the helpers, applied
InitFormat ==
    /\ source = [readable |-> FALSE, files |-> <<>>]
    /\ env = NoEnv
    /\ rulesCache = <<>>
    /\ allChunks = <<>>
    /\ pc = "serving"
    /\ request = NoRequest
    /\ response = NoResponse
    /\ courtListenerClient = NullClient
    /\ call = NoCall
    /\ sent = <<>>
    /\ awaiting = FALSE
    /\ reply = NoReply
    /\ result = NoOutcome
    /\ inflight = NoInflight

Format(helper, arg, out) ==
    /\ request = NoRequest
    /\ request' = [tool |-> helper, arg |-> Some(arg)]
    /\ response' = [NoResponse EXCEPT !.kind = IF out.threw THEN "throw" ELSE "formatted",
                                      !.results = out.lines]
    /\ UNCHANGED <<source, env, rulesCache, allChunks, pc>>
    /\ UNCHANGED clientVars

FormatDocket == \E d \in Dockets : Format("formatDocket", d, formatDocket(d))

FormatOpinionCluster ==
    \E c \in Clusters : Format("formatOpinionCluster", c, formatOpinionCluster(c))

FormatSearchResult ==
    \E r \in SearchResults : Format("formatSearchResult", r, formatSearchResult(r))

FormatDocketEntries ==
    \E es \in ListsUpTo(DocketEntryPool, MaxEntries) :
        Format("formatDocketEntries", es, formatDocketEntries(es))

FormatParties ==
    \E ps \in ListsUpTo(PartyPool, MaxEntries) :
        Format("formatParties", ps, formatParties(ps))

NextFormat ==
    \/ FormatDocket \/ FormatOpinionCluster \/ FormatSearchResult
    \/ FormatDocketEntries \/ FormatParties \/ Respond

SpecFormat == InitFormat /\ [][NextFormat]_vars

\* -------------------------------------------------------- validate_document
\* FORMAT_REQUIREMENTS.page_limits
page_limits == [motion |-> 45, opposition |-> 45, reply |-> 25]

isUpperLetter(c) ==
    c \in {"A", "B", "C", "D", "E", "F", "G", "H", "I", "J", "K", "L", "M",
           "N", "O", "P", "Q", "R", "S", "T", "U", "V", "W", "X", "Y", "Z"}

\* FORMAT_REQUIREMENTS.case_number_pattern.test: /^1:\d{2}-cv-\d{5}-[A-Z]{2,4}$/
case_number_pattern(s) ==
    /\ Len(s) \in 16..18
    /\ SubSeq(s, 1, 2) = <<"1", ":">>
    /\ \A i \in 3..4 : isDigit(s[i])
    /\ SubSeq(s, 5, 8) = <<"-", "c", "v", "-">>
    /\ \A i \in 9..13 : isDigit(s[i])
    /\ s[14] = "-"
    /\ \A i \in 15..Len(s) : isUpperLetter(s[i])

issue(check, detail) == [check |-> check, detail |-> detail]

MOTION == <<"m", "o", "t", "i", "o", "n">>
REPLY == <<"r", "e", "p", "l", "y">>
COMPLAINT == <<"c", "o", "m", "p", "l", "a", "i", "n", "t">>
TIMES == <<"t", "i", "m", "e", "s">>

\* args?.flag === false
isFalse(val) == val.t = "boolean" /\ ~val.b

\* a page-limit check that knows one limit only
pageLimitIssues_oneLimit(args) ==
    LET page_count == prop(args, "page_count") IN
    IF truthy(page_count) /\ page_count.n > page_limits.motion
    THEN <<issue("page_limit", <<page_count.n, page_limits.motion>>)>>
    ELSE <<>>

\* // Check page limits
pageLimitIssues(args) ==
    LET page_count == prop(args, "page_count")
        document_type == prop(args, "document_type")
        docType == IF truthy(document_type) THEN document_type.s ELSE MOTION
        maxPages == IF docType = REPLY THEN page_limits.reply ELSE page_limits.motion
    IN IF truthy(page_count) /\ page_count.n > maxPages
       THEN <<issue("page_limit", <<page_count.n, maxPages, docType>>)>>
       ELSE <<>>

\* a validator that counts the missing certificate of service as an issue
validate_document_strict(args) ==
    LET issues ==
            pageLimitIssues(args)
            \o (IF isFalse(prop(args, "has_certificate_of_service"))
                THEN <<issue("certificate_of_service", <<>>)>> ELSE <<>>)
    IN [valid |-> Len(issues) = 0, issues |-> issues, warnings |-> <<>>]

validate_document(args) ==
    LET case_number == prop(args, "case_number")
        font == prop(args, "font")
        font_size == prop(args, "font_size")
        issues ==
            pageLimitIssues(args)
            \o (IF truthy(case_number) /\ ~case_number_pattern(case_number.s)
                THEN <<issue("case_number", case_number.s)>> ELSE <<>>)
            \o (IF truthy(font) /\ ~includes(toLowerCase(font.s), TIMES)
                THEN <<issue("font", font.s)>> ELSE <<>>)
            \o (IF truthy(font_size) /\ font_size.n # 12
                THEN <<issue("font_size", font_size.n)>> ELSE <<>>)
            \o (IF isFalse(prop(args, "has_caption"))
                THEN <<issue("caption", <<>>)>> ELSE <<>>)
            \o (IF isFalse(prop(args, "has_signature_block"))
                THEN <<issue("signature_block", <<>>)>> ELSE <<>>)
        warnings ==
            IF /\ isFalse(prop(args, "has_certificate_of_service"))
               /\ prop(args, "document_type") # strV(COMPLAINT)
            THEN <<issue("certificate_of_service", <<>>)>> ELSE <<>>
    IN [valid |-> Len(issues) = 0, issues |-> issues, warnings |-> warnings]

Flags == {undefV, boolV(TRUE), boolV(FALSE)}

ValidateArgs ==
    {Undefined} \cup
    {Some(<<kv("page_count", n), kv("document_type", t), kv("case_number", c),
            kv("font", f), kv("font_size", z), kv("has_caption", hc),
            kv("has_signature_block", hs), kv("has_certificate_of_service", hs2)>>) :
        n \in {undefV, numV(0), numV(25), numV(26), numV(45), numV(46)},
        t \in {undefV, strV(<<>>), strV(MOTION), strV(REPLY), strV(COMPLAINT),
               strV(<<"o", "p", "p", "o", "s", "i", "t", "i", "o", "n">>)},
        c \in {undefV,
               strV(<<"1", ":", "2", "4", "-", "c", "v", "-", "0", "1", "2", "3", "4",
                      "-", "A", "B", "C">>),
               strV(<<"2", "4", "-", "c", "v", "-", "1">>)},
        f \in {undefV, strV(<<"T", "I", "M", "E", "S">>), strV(<<"A", "r", "i", "a", "l">>)},
        z \in {undefV, numV(12), numV(11)},
        hc \in Flags, hs \in Flags, hs2 \in Flags}

ValidateDocument ==
    /\ pc \in {"serving", "reloaded"}
    /\ request = NoRequest
    /\ \E args \in ValidateArgs :
        /\ request' = [tool |-> "validate_document", arg |-> args]
        /\ response' = [kind |-> "validation"] @@ validate_document(args)
    /\ UNCHANGED <<source, env, rulesCache, allChunks, pc>>
    /\ UNCHANGED clientVars

NextValidate == ValidateDocument \/ Respond

SpecValidate == InitFormat /\ [][NextValidate]_vars

\* ============================================================ startup claim
\* C21: at startup the environment-file load, the rule index load and the
\* client initialisation have completed before the server is connected, so
\* every request is served from the completely built index.
C21_LoadedBeforeServing ==
    (pc = "serving" \/ request # NoRequest) =>
        /\ pc = "serving"
        /\ rulesCache = loadedOnce.rulesCache
        /\ allChunks = loadedOnce.allChunks
        /\ env = loadEnvFile(env)
        /\ courtListenerClient = initCourtListener(env, NullClient)

\* a document of a two-document index was served by a server whose client
\* was built from the token of the .env file
C21_Witness ==
    /\ request.tool = "get_rule"
    /\ response.kind = "document"
    /\ Len(rulesCache) = 2
    /\ courtListenerClient.set
    /\ courtListenerClient.apiToken = "token-file"

\* ================================================== formatting helper claim
labelled(lines, label) == {i \in 1..Len(lines) : lines[i].label = label}

\* an absent (null or empty) field has no line, a present one has one line with its value
fieldLine(lines, o, label) ==
    IF nonEmpty(o)
    THEN \E i \in 1..Len(lines) :
             lines[i] = line(label, o.v) /\ labelled(lines, label) = {i}
    ELSE labelled(lines, label) = {}

\* the three lines of a summary or snippet, present exactly when the text is
blockLines(lines, present, heading, text) ==
    IF present
    THEN \E i \in 1..(Len(lines) - 1) :
             /\ lines[i] = line(heading, <<>>)
             /\ lines[i + 1] = line("", text)
             /\ labelled(lines, heading) = {i}
    ELSE labelled(lines, heading) = {} /\ labelled(lines, "") = {}

attorneysOf(party) == IF party.attorneys.def THEN party.attorneys.v ELSE <<>>

FormatHelpers ==
    {"formatDocket", "formatOpinionCluster", "formatSearchResult",
     "formatDocketEntries", "formatParties"}

validated == request.tool = "validate_document"

pageLimitIssue == \E i \in 1..Len(response.issues) : response.issues[i].check = "page_limit"

\* C23: when a page count is given, validate_document reports a page-limit
\* issue exactly when the count exceeds 25 for a 'reply' and 45 for every
\* other document type (the default type included).
C23_PageLimits ==
    (validated /\ prop(request.arg, "page_count").t = "number") =>
        LET n == prop(request.arg, "page_count").n IN
        pageLimitIssue <=>
            IF prop(request.arg, "document_type") = strV(REPLY) THEN n > 25 ELSE n > 45

\* a 26-page reply was reported, as its only issue
C23_Witness ==
    /\ validated
    /\ prop(request.arg, "page_count") = numV(26)
    /\ prop(request.arg, "document_type") = strV(REPLY)
    /\ pageLimitIssue
    /\ Len(response.issues) = 1

omitted(key) == prop(request.arg, key) = undefV

checkOf(key) ==
    CASE key = "page_count" -> "page_limit"
      [] key = "has_caption" -> "caption"
      [] key = "has_signature_block" -> "signature_block"
      [] key = "has_certificate_of_service" -> "certificate_of_service"
      [] OTHER -> key

reports(list, check) == \E i \in 1..Len(list) : list[i].check = check

\* C25: valid is true exactly when the issues list is empty; a missing
\* certificate of service only adds a warning, never an issue, and adds no
\* warning for a complaint; a check whose input field is omitted adds neither
\* an issue nor a warning.
C25_ValidIffNoIssues ==
    validated =>
        /\ response.valid <=> response.issues = <<>>
        /\ ~reports(response.issues, "certificate_of_service")
        /\ reports(response.warnings, "certificate_of_service") <=>
               /\ prop(request.arg, "has_certificate_of_service") = boolV(FALSE)
               /\ prop(request.arg, "document_type") # strV(COMPLAINT)
        /\ \A key \in {"page_count", "case_number", "font", "font_size", "has_caption",
                       "has_signature_block", "has_certificate_of_service"} :
               omitted(key) => /\ ~reports(response.issues, checkOf(key))
                               /\ ~reports(response.warnings, checkOf(key))

\* a motion without certificate of service and nothing else wrong is valid,
\* with one warning
C25_Witness ==
    /\ validated
    /\ prop(request.arg, "has_certificate_of_service") = boolV(FALSE)
    /\ prop(request.arg, "document_type") = strV(MOTION)
    /\ omitted("font")
    /\ response.valid
    /\ Len(response.warnings) = 1

\* ================================================== citation lookup failure
searchSent == \E i \in 1..Len(sent) : sent[i].path = "/search/"

requestFailed == reply # NoReply /\ (reply.net = "failed" \/ ~responseOk(reply))

\* C24: lookupCitation falls back to the full-text search only when the
\* citation pattern does not match; when it matches and the direct query fails
\* (network failure or non-2xx status) the error propagates to the caller and
\* no search request is issued.
C24_NoFallbackOnFailure ==
    call.op = "lookupCitation" =>
        /\ searchSent => ~wellFormedCitation(call.citation)
        /\ (wellFormedCitation(call.citation) /\ ~awaiting /\ requestFailed) =>
              /\ result.kind = "error"
              /\ result = fetchSettle(reply)
              /\ Len(sent) = 1
              /\ sent[1].path = "/citations/"

\* the direct query for "5 F.3d 05" was answered with status 500
C24_Witness ==
    /\ call.op = "lookupCitation"
    /\ call.citation = <<"5", " ", "F", ".", "3", "d", " ", "0", "5">>
    /\ ~awaiting
    /\ reply.net = "ok"
    /\ reply.status = 500
    /\ result.kind = "error"
    /\ ~searchSent

\* ======================================================== tool case claims
isClusterRequest(req) == req.path = "/clusters/{id}/" /\ req.id # <<>>
isCitingRequest(req) == req.path = "/clusters/" /\ hasParam(req, "cites")
citingRequests == {i \in 1..Len(sent) : isCitingRequest(sent[i])}

\* C26: get_citing_cases asks for the citing clusters only after the request
\* for the original cluster has succeeded: when that request fails no citing
\* request is sent and the answer is an error response, and when it succeeds
\* exactly one citing request is sent.
C26_CitingAfterOriginal ==
    (request.tool = "get_citing_cases" /\ courtListenerClient.set) =>
        /\ Len(sent) \in 1..2
        /\ isClusterRequest(sent[1])
        /\ sent[1].id = numberToString(prop(request.arg, "cluster_id").n)
        /\ Len(sent) = 2 =>
              /\ citingRequests = {2}
              /\ param(sent[2], "cites") = sent[1].id
              /\ awaiting => fetchSettle(reply).kind = "value"
        /\ (Len(sent) = 1 /\ reply # NoReply) =>
              /\ fetchSettle(reply).kind = "error"
              /\ ~awaiting
              /\ citingRequests = {}
              /\ response.kind = "tool_failed"
              /\ response.message = fetchSettle(reply).message

\* the original cluster was not found: one request, an error answer
C26_Witness ==
    /\ request.tool = "get_citing_cases"
    /\ reply.status = 404
    /\ Len(sent) = 1
    /\ response.kind = "tool_failed"

\* C27: lookup_citation answers every successful search response without an
\* error: found = true with the first result exactly when the reported count
\* is positive, found = false when it is zero.
C27_FoundIffCountPositive ==
    (request.tool = "lookup_citation" /\ ~awaiting /\ result.kind = "value") =>
        /\ response.kind = "tool_result"
        /\ response.found <=> result.value.count > 0
        /\ response.found => response.results = <<result.value.results[1]>>

\* C28: a failure of the client call never leaves the handler of a
\* legal-records tool: the handler answers normally, with an error object that
\* carries the client's error message, and the rule index and the client handle
\* are as they were.
C28_FailureIsAnswered ==
    /\ [](  (request.tool \in CourtListenerTools /\ ~awaiting /\ result.kind = "error") =>
              /\ response.kind = "tool_failed"
              /\ response.message = fetchSettle(reply).message)
    /\ [][request.tool \in CourtListenerTools =>
              UNCHANGED <<rulesCache, allChunks, courtListenerClient, env>>]_vars

\* a docket request was refused with status 500 and the tool answered with the
\* client's message
C28_Witness ==
    /\ request.tool = "get_case_docket"
    /\ ~awaiting
    /\ reply.status = 500
    /\ result.kind = "error"
    /\ response.kind = "tool_failed"
    /\ response.message = errorMessage(500, reply.body)

\* ====================================================== resource URI claim
\* the positions of the documents whose published URI is the one being read
publishedAs(uri) ==
    {i \in 1..Len(rulesCache) : rulesCache[i].key.def /\ ruleUri(rulesCache[i].key.v) = uri}

\* C29: resource URIs round-trip: for every rule document in the index, the
\* URI the list-resources handler publishes for it is accepted by the
\* read-resource handler and yields that same document, never 'Resource not
\* found' or another document.
C29_ResourceUriRoundTrip ==
    request.tool = "resources/read" =>
        \A i \in publishedAs(request.arg.v) :
            /\ response.kind = "resource"
            /\ response.rule = rulesCache[i].value

\* ================================================ chunk sequence and map
RECURSIVE chunksOfMap(_)
chunksOfMap(cache) ==
    IF cache = <<>> THEN <<>>
    ELSE (IF Head(cache).value.chunks.def THEN Head(cache).value.chunks.v ELSE <<>>)
             \o chunksOfMap(Tail(cache))

\* C30: after load, for any source contents, the flattened chunk sequence is
\* the concatenation, in insertion order of the map, of the chunk lists of
\* exactly the documents held in the map.
C30_ChunksMatchMap ==
    pc = "serving" => allChunks = chunksOfMap(rulesCache)
====
